---- MODULE Spec2Model ----
(***************************************************************************)
(* Atl: simulator pool (simulators.py), run ledger (runs.py) and the       *)
(* SQLite store they share (db.py).                                        *)
(*                                                                         *)
(* Every operation opens its own connection.  With the sqlite3 module's    *)
(* default transaction control a SELECT runs in autocommit mode and sees   *)
(* the last committed store; the first INSERT/UPDATE opens the write       *)
(* transaction, which holds SQLite's write lock until the commit or the    *)
(* rollback of db.transaction.  Writers are therefore serialised and a     *)
(* write transaction is one atomic step here, while the reads an operation *)
(* makes before its first write, and its calls to simctl, are steps of     *)
(* their own that other callers can interleave with.                       *)
(***************************************************************************)
EXTENDS Integers, Sequences, FiniteSets, TLC

VARIABLES db, inv, clock, proc, ret

vars == <<db, inv, clock, proc, ret>>

\* ------------------------------------------------------------------ bounds
NumProcs == 2
MaxSims == 2
MaxRuns == 2
MaxClock == 3

AllUdids == <<"u1", "u2", "u3", "u4">>
AllRunIds == <<"r1", "r2", "r3", "r4">>

Procs == 1..NumProcs
Udids == {AllUdids[i] : i \in 1..MaxSims}
RunIds == {AllRunIds[i] : i \in 1..MaxRuns}

NULL == "NULL"

\* ------------------------------------------------------- text as characters
iPad == <<"i", "P", "a", "d">>
iPhone == <<"i", "P", "h", "o", "n", "e">>
Pro == <<"P", "r", "o">>
Air == <<"A", "i", "r">>
ProMax == <<"P", "r", "o", " ", "M", "a", "x">>
Pro13 == <<"P", "r", "o", " ", "1", "3">>
Air13 == <<"A", "i", "r", " ", "1", "3">>
Pro11 == <<"P", "r", "o", " ", "1", "1">>
Air11 == <<"A", "i", "r", " ", "1", "1">>

Size1032x1376 == <<"1", "0", "3", "2", "x", "1", "3", "7", "6">>
Size834x1194 == <<"8", "3", "4", "x", "1", "1", "9", "4">>
Size820x1180 == <<"8", "2", "0", "x", "1", "1", "8", "0">>
Size430x932 == <<"4", "3", "0", "x", "9", "3", "2">>
Size393x852 == <<"3", "9", "3", "x", "8", "5", "2">>
Size320x693 == <<"3", "2", "0", "x", "6", "9", "3">>

\* Python's `pat in s` on strings.
Contains(s, pat) ==
    \E i \in 1..(Len(s) - Len(pat) + 1) : SubSeq(s, i, i + Len(pat) - 1) = pat

get_screen_size_pro_first(name) ==
    IF Contains(name, iPad)
    THEN IF Contains(name, Pro13) \/ Contains(name, Air13) THEN Size1032x1376
         ELSE IF Contains(name, Pro11) \/ Contains(name, Air11) THEN Size834x1194
         ELSE Size820x1180
    ELSE IF Contains(name, Pro) THEN Size393x852
    ELSE IF Contains(name, ProMax) THEN Size430x932
    ELSE IF Contains(name, Air) THEN Size320x693
    ELSE Size393x852

get_screen_size(name) ==
    IF Contains(name, iPad)
    THEN IF Contains(name, Pro13) \/ Contains(name, Air13) THEN Size1032x1376
         ELSE IF Contains(name, Pro11) \/ Contains(name, Air11) THEN Size834x1194
         ELSE Size820x1180
    ELSE IF Contains(name, ProMax) THEN Size430x932
    ELSE IF Contains(name, Pro) THEN Size393x852
    ELSE IF Contains(name, Air) THEN Size320x693
    ELSE Size393x852

get_device_type(name) == IF Contains(name, iPad) THEN iPad ELSE iPhone

\* f"{device_type}-{screen_size}"
PoolOf(name) == get_device_type(name) \o <<"-">> \o get_screen_size(name)

\* The device names the inventory reports in this model.
NameIPhone15Pro == iPhone \o <<" ", "1", "5", " ">> \o Pro
NameIPhone15ProMax == iPhone \o <<" ", "1", "5", " ">> \o ProMax
DeviceNames == {NameIPhone15Pro, NameIPhone15ProMax}
Pools == {PoolOf(n) : n \in DeviceNames}
\* A device keeps its name: odd devices are Pro models, even ones Pro Max.
NameOfDevice(i) == IF i % 2 = 1 THEN NameIPhone15Pro ELSE NameIPhone15ProMax

\* ------------------------------------------------------ the device inventory
\* What `xcrun simctl list devices --json` knows: udid -> name and simctl state.
SimctlStates == {"Booted", "Shutdown"}
Inventories ==
    {i \in UNION {[S -> [name : DeviceNames, state : SimctlStates]] : S \in SUBSET Udids} :
        \A k \in 1..MaxSims : AllUdids[k] \in DOMAIN i => i[AllUdids[k]].name = NameOfDevice(k)}

RECURSIVE DeviceList(_, _)
\* The devices of the JSON output, in output order.
DeviceList(i, inventory) ==
    IF i > MaxSims THEN <<>>
    ELSE (IF AllUdids[i] \in DOMAIN inventory
          THEN <<[udid |-> AllUdids[i], name |-> inventory[AllUdids[i]].name,
                  state |-> inventory[AllUdids[i]].state]>>
          ELSE <<>>) \o DeviceList(i + 1, inventory)

run_simctl(inventory) == DeviceList(1, inventory)

\* ---------------------------------------------------------------- the store
\* Tables are functions from the primary keys present to rows.
EmptyTable == [k \in {} |-> NULL]

\* The tables of the schema, named as the store's fields (sims is simulators).
TableNames == {"selectors", "sims", "runs", "metrics"}

\* The store after init_db: tables is the set of tables that exist, seq the
\* sqlite_sequence row of selectors (the largest id it ever held).
EmptyStore ==
    [selectors |-> EmptyTable, sims |-> EmptyTable, runs |-> EmptyTable,
     metrics |-> EmptyTable, seq |-> 0, tables |-> TableNames]

CaptureModes == {"light", "jpeg", "pdf"}
ActionTypes == {"click", "type", "navigation", "scroll"}

\* The column defaults of the metrics table.
ZeroMetrics ==
    [captures |-> [m \in CaptureModes |-> 0],
     bytes |-> [m \in CaptureModes |-> 0],
     bytes_total |-> 0,
     tokens_estimated |-> 0,
     cost_usd |-> 0,
     actions |-> [a \in ActionTypes |-> 0],
     selector_hits |-> 0,
     selector_misses |-> 0,
     errors |-> 0]

\* db.transaction: commit when the body returns ...
Commit(before, after) == after

RollbackKeepsWrites(before, partial) == partial

\* ... and roll back when it raises.
Rollback(before, partial) == before

\* Python truthiness of an optional text value.
Truthy(v) == v # NULL /\ v # ""

\* ----------------------------------------------------------- the callers
NoRet == [op |-> "none"]
Idle == [pc |-> "idle"]

Error(op, stmts) == [op |-> op, kind |-> "error", stmts |-> stmts]

\* datetime.utcnow(): every reading is later than the one before.
Tick == clock < MaxClock /\ clock' = clock + 1
now == clock + 1

Finish(p, r) == proc' = [proc EXCEPT ![p] = Idle] /\ ret' = [ret EXCEPT ![p] = r]
Goto(p, l) == proc' = [proc EXCEPT ![p] = l] /\ ret' = [ret EXCEPT ![p] = NoRet]

\* ------------------------------------------------------ simulators.refresh
\* What `SELECT current_task ... ` followed by `row and row["current_task"]` sees.
ReadTask(sims, udid) == IF udid \in DOMAIN sims THEN sims[udid].current_task ELSE NULL

\* Map the simctl state to the pool's state; a task that was read wins.
PyState(dev, task) ==
    IF Truthy(task) THEN "busy"
    ELSE IF dev.state = "Booted" THEN "available" ELSE "offline"

UpsertIgnoresTask(sims, dev, state, t) ==
    LET row == [name |-> dev.name,
                device_type |-> get_device_type(dev.name),
                screen_size |-> get_screen_size(dev.name),
                pool |-> PoolOf(dev.name),
                state |-> IF dev.state = "Booted" THEN "available" ELSE "offline",
                current_task |-> ReadTask(sims, dev.udid),
                last_activity |-> t]
    IN  IF dev.udid \in DOMAIN sims
        THEN [sims EXCEPT ![dev.udid] = row]
        ELSE sims @@ (dev.udid :> row)

\* INSERT INTO simulators ... ON CONFLICT(udid) DO UPDATE SET ...
Upsert(sims, dev, state, t) ==
    IF dev.udid \in DOMAIN sims
    THEN [sims EXCEPT ![dev.udid] =
            [name |-> dev.name,
             device_type |-> get_device_type(dev.name),
             screen_size |-> get_screen_size(dev.name),
             pool |-> PoolOf(dev.name),
             state |-> IF sims[dev.udid].current_task # NULL THEN "busy" ELSE state,
             current_task |-> sims[dev.udid].current_task,
             last_activity |-> t]]
    ELSE sims @@ (dev.udid :>
            [name |-> dev.name,
             device_type |-> get_device_type(dev.name),
             screen_size |-> get_screen_size(dev.name),
             pool |-> PoolOf(dev.name),
             state |-> state,
             current_task |-> NULL,
             last_activity |-> t])

\* (a refresh that forgets the devices the inventory does not report)
refresh_loop_resync(sims, data, i, n, first, t) ==
    [u \in {data[k].udid : k \in 1..n} |->
        Upsert(sims, CHOOSE dev \in {data[k] : k \in 1..n} : dev.udid = u,
               PyState(CHOOSE dev \in {data[k] : k \in 1..n} : dev.udid = u,
                       ReadTask(sims, u)), t)[u]]

RECURSIVE refresh_loop(_, _, _, _, _, _)
\* The loop over the devices: devices i..n of data, the first one with the task
\* that was read before the write transaction began.
refresh_loop(sims, data, i, n, first, t) ==
    IF i > n THEN sims
    ELSE LET dev == data[i]
             task == IF i = 1 THEN first ELSE ReadTask(sims, dev.udid)
         IN  refresh_loop(Upsert(sims, dev, PyState(dev, task), t), data, i + 1, n, first, t)

\* pools[pool] += 1 over the devices processed.
PoolCounts(data) ==
    [q \in {PoolOf(data[i].name) : i \in 1..Len(data)} |->
        Cardinality({i \in 1..Len(data) : PoolOf(data[i].name) = q})]

\* The inventory is the environment's: devices are created, deleted, renamed,
\* booted and shut down behind the pool's back.  The pool sees it only when it
\* runs simctl, so the inventory i that a query meets is an input of the query.
\* simctl is run and its output parsed; then the connection is opened and the
\* first device's current_task is read.  ok = FALSE: no or unparsable output.
\* bad = k > 0: the k-th device of the output lacks a field.
refresh_query(p, i, ok, bad) ==
    /\ proc[p].pc = "idle"
    /\ Tick
    /\ inv' = i
    /\ UNCHANGED db
    /\ LET data == run_simctl(i)
       IN  IF ~ok THEN i = inv /\ bad = 0 /\ Finish(p, Error("refresh", 0))
           ELSE /\ bad <= Len(data)
                /\ IF Len(data) = 0
                   THEN Finish(p, [op |-> "refresh", kind |-> "ok", simulators |-> 0,
                                   pools |-> PoolCounts(data)])
                   ELSE IF bad = 1 THEN Finish(p, Error("refresh", 0))
                   ELSE Goto(p, [pc |-> "refresh_txn", data |-> data, bad |-> bad,
                                 first |-> ReadTask(db.sims, data[1].udid), t |-> now])

\* The write transaction of refresh: every upsert, then commit; a malformed
\* device raises out of the transaction.
refresh_upsert(p) ==
    /\ proc[p].pc = "refresh_txn"
    /\ UNCHANGED <<inv, clock>>
    /\ LET l == proc[p]
           n == IF l.bad = 0 THEN Len(l.data) ELSE l.bad - 1
           after == [db EXCEPT !.sims = refresh_loop(db.sims, l.data, 1, n, l.first, l.t)]
       IN  IF l.bad # 0
           THEN db' = Rollback(db, after) /\ Finish(p, Error("refresh", n))
           ELSE /\ db' = Commit(db, after)
                /\ Finish(p, [op |-> "refresh", kind |-> "ok", simulators |-> n,
                              pools |-> PoolCounts(l.data)])

\* ------------------------------------------------------ simulators.acquire
SelectAvailableAnyPool(sims, pool) == {u \in DOMAIN sims : sims[u].state = "available"}

\* SELECT udid FROM simulators WHERE pool = ? AND state = 'available'
SelectAvailable(sims, pool) ==
    {u \in DOMAIN sims : sims[u].pool = pool /\ sims[u].state = "available"}

\* UPDATE simulators SET state = 'busy', current_task = ?, last_activity = ?
\* WHERE udid = ?
MarkBusy(sims, udid, task, t) ==
    IF udid \in DOMAIN sims
    THEN [sims EXCEPT ![udid] = [@ EXCEPT !.state = "busy", !.current_task = task,
                                          !.last_activity = t]]
    ELSE sims

\* The SELECT ... LIMIT 1, in autocommit: no row returns None at once.
acquire_select(p, pool, task) ==
    /\ proc[p].pc = "idle"
    /\ Tick
    /\ UNCHANGED <<db, inv>>
    /\ LET rows == SelectAvailable(db.sims, pool)
       IN  IF rows = {}
           THEN Finish(p, [op |-> "acquire", kind |-> "ok", udid |-> NULL])
           ELSE \E u \in rows :
                  Goto(p, [pc |-> "acquire_txn", udid |-> u, task |-> task, t |-> now])

\* The UPDATE of the selected row and the commit.
acquire_update(p) ==
    /\ proc[p].pc = "acquire_txn"
    /\ UNCHANGED <<inv, clock>>
    /\ LET l == proc[p]
       IN  /\ db' = Commit(db, [db EXCEPT !.sims = MarkBusy(db.sims, l.udid, l.task, l.t)])
           /\ Finish(p, [op |-> "acquire", kind |-> "ok", udid |-> l.udid])

\* ------------------------------------------------------ simulators.release
RECURSIVE release_loop_any_state(_, _, _)
release_loop_any_state(data, i, udid) ==
    IF i > Len(data) THEN "offline"
    ELSE IF data[i].udid = udid THEN "available"
    ELSE release_loop_any_state(data, i + 1, udid)

RECURSIVE release_loop(_, _, _)
\* new_state = "available" when a device of the output has this udid and is Booted.
release_loop(data, i, udid) ==
    IF i > Len(data) THEN "offline"
    ELSE IF data[i].udid = udid /\ data[i].state = "Booted" THEN "available"
    ELSE release_loop(data, i + 1, udid)

\* UPDATE simulators SET state = ?, current_task = NULL, last_activity = ?
\* WHERE udid = ?
Clear(sims, udid, state, t) ==
    IF udid \in DOMAIN sims
    THEN [sims EXCEPT ![udid] = [@ EXCEPT !.state = state, !.current_task = NULL,
                                          !.last_activity = t]]
    ELSE sims

\* simctl is run and the device looked up in its output.  Only that device's
\* entry is read, so only its change is met here; a failed query meets none.
release_query(p, udid, i, ok) ==
    /\ proc[p].pc = "idle"
    /\ Tick
    /\ inv' = i
    /\ \A u \in Udids \ {udid} :
          (u \in DOMAIN i) = (u \in DOMAIN inv) /\ (u \in DOMAIN i => i[u] = inv[u])
    /\ UNCHANGED db
    /\ IF ~ok THEN i = inv /\ Finish(p, Error("release", 0))
       ELSE Goto(p, [pc |-> "release_txn", udid |-> udid,
                     new_state |-> release_loop(run_simctl(i), 1, udid), t |-> now])

\* The UPDATE and the commit.
release_update(p) ==
    /\ proc[p].pc = "release_txn"
    /\ UNCHANGED <<inv, clock>>
    /\ LET l == proc[p]
       IN  /\ db' = Commit(db, [db EXCEPT !.sims = Clear(db.sims, l.udid, l.new_state, l.t)])
           /\ Finish(p, [op |-> "release", kind |-> "ok", udid |-> l.udid,
                         state |-> l.new_state])

\* --------------------------------------------------------------- runs.start
\* INSERT INTO runs (id, workflow, simulator_udid, status, start_time, run_dir)
InsertRun(store, run, workflow, udid, t) ==
    [store EXCEPT !.runs = @ @@ (run :>
        [workflow |-> workflow, simulator_udid |-> udid, status |-> "running",
         start_time |-> t, end_time |-> <<>>, total_steps |-> 0, current_step |-> 0,
         run_dir |-> run])]

InsertRunRaisesOnDuplicateOnly(store, run, udid) == run \in DOMAIN store.runs

\* The primary key of runs and its foreign key to simulators.
InsertRunRaises(store, run, udid) ==
    run \in DOMAIN store.runs \/ (udid # NULL /\ udid \notin DOMAIN store.sims)

\* INSERT INTO metrics (run_id) VALUES (?)
InsertMetrics(store, run) == [store EXCEPT !.metrics = @ @@ (run :> ZeroMetrics)]

\* The primary key of metrics and its foreign key to runs.
InsertMetricsRaises(store, run) ==
    run \in DOMAIN store.metrics \/ run \notin DOMAIN store.runs

\* UPDATE simulators SET state = 'busy', current_task = ? WHERE udid = ?
Bind(store, udid, run) ==
    IF udid \in DOMAIN store.sims
    THEN [store EXCEPT !.sims[udid] = [@ EXCEPT !.state = "busy", !.current_task = run]]
    ELSE store

\* The whole of start: one write transaction.  failAt = k > 0: the store fails
\* at the k-th statement (at the commit when there is no k-th statement).
start(p, run, udid, failAt) ==
    /\ proc[p].pc = "idle"
    /\ Tick
    /\ UNCHANGED <<inv, proc>>
    /\ LET s1 == InsertRun(db, run, "wf", udid, now)
           s2 == InsertMetrics(s1, run)
           s3 == IF Truthy(udid) THEN Bind(s2, udid, run) ELSE s2
       IN  IF failAt = 1 \/ InsertRunRaises(db, run, udid)
           THEN db' = Rollback(db, db) /\ ret' = [ret EXCEPT ![p] = Error("start", 0)]
           ELSE IF failAt = 2 \/ InsertMetricsRaises(s1, run)
           THEN db' = Rollback(db, s1) /\ ret' = [ret EXCEPT ![p] = Error("start", 1)]
           ELSE IF failAt = 3
           THEN db' = Rollback(db, s2) /\ ret' = [ret EXCEPT ![p] = Error("start", 2)]
           ELSE /\ db' = Commit(db, s3)
                /\ ret' = [ret EXCEPT ![p] = [op |-> "start", kind |-> "ok", run |-> run,
                                              udid |-> udid, status |-> "running"]]

\* ------------------------------------------------------------ runs.complete
SetStatusOnly(store, run, status, t, total_steps) ==
    IF run \in DOMAIN store.runs
    THEN [store EXCEPT !.runs[run] = [@ EXCEPT !.status = status,
                                               !.total_steps = total_steps]]
    ELSE store

\* UPDATE runs SET status = ?, end_time = ?, total_steps = ? WHERE id = ?
SetStatus(store, run, status, t, total_steps) ==
    IF run \in DOMAIN store.runs
    THEN [store EXCEPT !.runs[run] = [@ EXCEPT !.status = status, !.end_time = <<t>>,
                                               !.total_steps = total_steps]]
    ELSE store

UnbindRechecksLiveness(store, udid) ==
    IF udid \in DOMAIN store.sims
    THEN [store EXCEPT !.sims[udid] =
            [@ EXCEPT !.state = release_loop(run_simctl(inv), 1, udid),
                      !.current_task = NULL]]
    ELSE store

\* UPDATE simulators SET state = 'available', current_task = NULL WHERE udid = ?
Unbind(store, udid) ==
    IF udid \in DOMAIN store.sims
    THEN [store EXCEPT !.sims[udid] = [@ EXCEPT !.state = "available",
                                                !.current_task = NULL]]
    ELSE store

\* SELECT simulator_udid FROM runs WHERE id = ?, in autocommit.
complete_select(p, run, status) ==
    /\ proc[p].pc = "idle"
    /\ Tick
    /\ UNCHANGED <<db, inv>>
    /\ Goto(p, [pc |-> "complete_txn", run |-> run, status |-> status,
                sim_udid |-> IF run \in DOMAIN db.runs THEN db.runs[run].simulator_udid
                             ELSE NULL,
                t |-> now])

\* The two UPDATEs and the commit.
complete_update(p) ==
    /\ proc[p].pc = "complete_txn"
    /\ UNCHANGED <<inv, clock>>
    /\ LET l == proc[p]
           s1 == SetStatus(db, l.run, l.status, l.t, 0)
           s2 == IF Truthy(l.sim_udid) THEN Unbind(s1, l.sim_udid) ELSE s1
       IN  /\ db' = Commit(db, s2)
           /\ Finish(p, [op |-> "complete", kind |-> "ok", run |-> l.run,
                         status |-> l.status])

Statuses == {"completed", "failed"}

Init ==
    /\ db = EmptyStore
    /\ inv = EmptyTable
    /\ clock = 0
    /\ proc = [p \in Procs |-> Idle]
    /\ ret = [p \in Procs |-> NoRet]

Next ==
    \/ \E p \in Procs, i \in Inventories, ok \in BOOLEAN, bad \in 0..MaxSims :
          refresh_query(p, i, ok, bad)
    \/ \E p \in Procs : refresh_upsert(p)
    \/ \E p \in Procs, pool \in Pools, task \in RunIds : acquire_select(p, pool, task)
    \/ \E p \in Procs : acquire_update(p)
    \/ \E p \in Procs, udid \in Udids, i \in Inventories, ok \in BOOLEAN :
          release_query(p, udid, i, ok)
    \/ \E p \in Procs : release_update(p)
    \/ \E p \in Procs, run \in RunIds, udid \in Udids \cup {NULL}, failAt \in 0..3 :
          start(p, run, udid, failAt)
    \/ \E p \in Procs, run \in RunIds, status \in Statuses : complete_select(p, run, status)
    \/ \E p \in Procs : complete_update(p)

Spec == Init /\ [][Next]_vars

\* ------------------------------------------------ two callers racing acquire
\* The pool both callers ask for, and the store a first refresh leaves when the
\* inventory i has exactly one Booted device of that pool.
RacePool == PoolOf(NameOfDevice(1))

RaceStore(i) ==
    [EmptyStore EXCEPT !.sims = refresh_loop(EmptyTable, run_simctl(i), 1,
                                            Len(run_simctl(i)), NULL, 1)]

InitRace ==
    /\ \E i \in Inventories :
          /\ AllUdids[1] \in DOMAIN i /\ i[AllUdids[1]].state = "Booted"
          /\ inv = i
          /\ db = RaceStore(i)
    /\ clock = 1
    /\ proc = [p \in Procs |-> Idle]
    /\ ret = [p \in Procs |-> NoRet]

\* Each caller calls acquire once, for the same pool, and nothing else runs.
NextRace ==
    \/ \E p \in Procs, task \in RunIds :
          ret[p] = NoRet /\ acquire_select(p, RacePool, task)
    \/ \E p \in Procs : acquire_update(p)

SpecRace == InitRace /\ [][NextRace]_vars

\* ------------------------------------------- a pool with a simulator in use
\* The store after a refresh that met the inventory i and an acquire, for the
\* task of the first run id, of the first device, all before the clock
\* readings counted here.
BoundStore(i) ==
    [EmptyStore EXCEPT !.sims =
        MarkBusy(refresh_loop(EmptyTable, run_simctl(i), 1, Len(run_simctl(i)), NULL, 0),
                 AllUdids[1], AllRunIds[1], 0)]

InitBound ==
    /\ \E i \in Inventories :
          /\ AllUdids[1] \in DOMAIN i /\ i[AllUdids[1]].state = "Booted"
          /\ inv = i
          /\ db = BoundStore(i)
    /\ clock = 0
    /\ proc = [p \in Procs |-> Idle]
    /\ ret = [p \in Procs |-> NoRet]

SpecBound == InitBound /\ [][Next]_vars

\* ------------------------------------------- a pool of devices of any name
\* The names `simctl` may report: up to MaxWords words with a space in between.
MaxWords == 3
Words == {iPhone, iPad, Pro, Air, <<"M", "a", "x">>, <<"1", "3">>, <<"1", "1">>}

RECURSIVE Join(_)
Join(ws) == IF Len(ws) = 1 THEN ws[1] ELSE ws[1] \o <<" ">> \o Join(Tail(ws))

Names == {Join(ws) : ws \in UNION {[1..k -> Words] : k \in 1..MaxWords}}

\* One booted device of any name, alone or next to a second one of that name.
NamedInventories ==
    {(AllUdids[1] :> [name |-> n, state |-> "Booted"]) : n \in Names}
        \cup {[u \in {AllUdids[1], AllUdids[2]} |-> [name |-> n, state |-> "Booted"]] : n \in Names}

InitNames ==
    /\ inv \in NamedInventories
    /\ db = EmptyStore
    /\ clock = 0
    /\ proc = [p \in Procs |-> Idle]
    /\ ret = [p \in Procs |-> NoRet]

NextNames ==
    \/ \E p \in Procs : refresh_query(p, inv, TRUE, 0)
    \/ \E p \in Procs : refresh_upsert(p)

SpecNames == InitNames /\ [][NextNames]_vars

\* ------------------------------------------------------- runs.add_capture
\* The captures and actions recorded in one behaviour, over all runs.
MaxRecords == 2

\* cost_usd is a REAL column; it is held here as a whole number of
\* 1/4,000,000 dollar, in which (bytes * 0.25) * 3 / 1000000 is 3 * bytes.
CostUnitsPerUSD == 4 * 1000000

\* CAST(x * 0.25 AS INTEGER): the quarter of x, truncated toward zero.
CastQuarter(x) == IF x >= 0 THEN x \div 4 ELSE -((-x) \div 4)

AddCaptureUpserts(store, run, mode, n) ==
    LET s == IF run \in DOMAIN store.metrics THEN store ELSE InsertMetrics(store, run)
    IN  [s EXCEPT !.metrics[run] =
            [@ EXCEPT !.captures[mode] = @ + 1,
                      !.bytes[mode] = @ + n,
                      !.bytes_total = @ + n,
                      !.tokens_estimated = CastQuarter(s.metrics[run].bytes_total + n),
                      !.cost_usd = 3 * (s.metrics[run].bytes_total + n)]]

AddCaptureStaleTotal(store, run, mode, n) ==
    IF run \in DOMAIN store.metrics
    THEN [store EXCEPT !.metrics[run] =
            [@ EXCEPT !.captures[mode] = @ + 1,
                      !.bytes[mode] = @ + n,
                      !.bytes_total = @ + n,
                      !.tokens_estimated = CastQuarter(store.metrics[run].bytes_total),
                      !.cost_usd = 3 * (store.metrics[run].bytes_total + n)]]
    ELSE store

\* UPDATE metrics SET captures_<mode> = captures_<mode> + 1, ... WHERE run_id = ?
\* Every right-hand side reads the row as it was before the statement.
AddCapture(store, run, mode, n) ==
    IF run \in DOMAIN store.metrics
    THEN [store EXCEPT !.metrics[run] =
            [@ EXCEPT !.captures[mode] = @ + 1,
                      !.bytes[mode] = @ + n,
                      !.bytes_total = @ + n,
                      !.tokens_estimated = CastQuarter(store.metrics[run].bytes_total + n),
                      !.cost_usd = 3 * (store.metrics[run].bytes_total + n)]]
    ELSE store

RECURSIVE Sum(_, _)
\* SUM(...) over the rows S of a column f.
Sum(f, S) ==
    IF S = {} THEN 0
    ELSE LET x == CHOOSE x \in S : TRUE IN f[x] + Sum(f, S \ {x})

CapturesOf(m) == Sum(m.captures, CaptureModes)
ActionsOf(m) == Sum(m.actions, ActionTypes)

\* The captures and the actions recorded so far, over all runs.
TotalCaptures == Sum([r \in DOMAIN db.metrics |-> CapturesOf(db.metrics[r])], DOMAIN db.metrics)
TotalActions == Sum([r \in DOMAIN db.metrics |-> ActionsOf(db.metrics[r])], DOMAIN db.metrics)

\* The one statement of add_capture and the commit.
add_capture(p, run, mode, n) ==
    /\ proc[p].pc = "idle"
    /\ run \in DOMAIN db.metrics => TotalCaptures + TotalActions < MaxRecords
    /\ UNCHANGED <<inv, clock, proc>>
    /\ db' = Commit(db, AddCapture(db, run, mode, n))
    /\ ret' = [ret EXCEPT ![p] = [op |-> "add_capture", kind |-> "ok", recorded |-> TRUE]]

\* -------------------------------------------------------- runs.add_action
\* UPDATE metrics SET actions_<type>s = actions_<type>s + 1 WHERE run_id = ?
AddActionFromZero(store, run, action_type) ==
    IF run \in DOMAIN store.metrics
    THEN [store EXCEPT !.metrics[run] = [@ EXCEPT !.actions[action_type] = 1]]
    ELSE store

AddAction(store, run, action_type) ==
    IF run \in DOMAIN store.metrics
    THEN [store EXCEPT !.metrics[run] = [@ EXCEPT !.actions[action_type] = @ + 1]]
    ELSE store

add_action(p, run, action_type) ==
    /\ proc[p].pc = "idle"
    /\ run \in DOMAIN db.metrics => TotalCaptures + TotalActions < MaxRecords
    /\ UNCHANGED <<inv, clock, proc>>
    /\ db' = Commit(db, AddAction(db, run, action_type))
    /\ ret' = [ret EXCEPT ![p] = [op |-> "add_action", kind |-> "ok", recorded |-> TRUE]]

\* --------------------------------------------------------- runs.aggregate
AggregatedAnyStatus(store) == DOMAIN store.metrics \cap DOMAIN store.runs

\* FROM metrics m JOIN runs r ON m.run_id = r.id WHERE r.status = 'completed'
Aggregated(store) ==
    {r \in DOMAIN store.metrics \cap DOMAIN store.runs : store.runs[r].status = "completed"}

\* round(x, 4): to the nearest 1/10,000 dollar.  Half-way between two of them
\* the result follows the binary value of the float, which lies on either side.
Round4(units) ==
    LET step == CostUnitsPerUSD \div 10000
        q == units \div step
        r == units % step
    IN  IF 2 * r < step THEN {q * step}
        ELSE IF 2 * r > step THEN {(q + 1) * step}
        ELSE {q * step, (q + 1) * step}

\* The SELECT of aggregate, and `row[...] or 0` for the SUM over no row.
aggregate(p) ==
    /\ proc[p].pc = "idle"
    /\ UNCHANGED <<db, inv, clock, proc>>
    /\ LET rows == Aggregated(db)
           m == db.metrics
       IN  \E cost \in Round4(Sum([r \in rows |-> m[r].cost_usd], rows)) :
              ret' = [ret EXCEPT ![p] =
                        [op |-> "aggregate", kind |-> "ok",
                         total_runs |-> Cardinality(rows),
                         total_bytes |-> Sum([r \in rows |-> m[r].bytes_total], rows),
                         total_tokens |-> Sum([r \in rows |-> m[r].tokens_estimated], rows),
                         total_cost_usd |-> cost,
                         total_captures |-> Sum([r \in rows |-> CapturesOf(m[r])], rows),
                         total_actions |-> Sum([r \in rows |-> ActionsOf(m[r])], rows)]]

\* ------------------------------------------------- the ledger of the runs
\* The byte counts of a capture: one that is no multiple of 4 among them.
ByteCounts == {1, 1000, 4000}

\* A run id that was never started.
MissingRun == AllRunIds[MaxRuns + 1]

RunStatuses == {"running"} \cup Statuses

RECURSIVE Ledger(_, _)
\* The store after the first k runs were started without a simulator, one after
\* the other, and those that st gives a final status were completed with it:
\* run k starts at time 2k - 1 and ends at time 2k.
Ledger(k, st) ==
    IF k = 0 THEN EmptyStore
    ELSE LET run == AllRunIds[k]
             started == InsertMetrics(InsertRun(Ledger(k - 1, st), run, "wf", NULL, 2 * k - 1), run)
         IN  IF st[run] = "running" THEN started
             ELSE SetStatus(started, run, st[run], 2 * k, 0)

\* Captures and actions neither read nor write a run's status, and complete
\* neither reads nor writes its metrics: the ledgers reached with the runs
\* completed first are those reached with the completions in between.
InitMetrics ==
    /\ \E st \in [RunIds -> RunStatuses] : db = Ledger(MaxRuns, st)
    /\ inv = EmptyTable
    /\ clock = 2 * MaxRuns
    /\ proc = [p \in Procs |-> Idle]
    /\ ret = [p \in Procs |-> NoRet]

NextMetrics ==
    \/ \E p \in Procs, run \in RunIds \cup {MissingRun}, mode \in CaptureModes, n \in ByteCounts :
          add_capture(p, run, mode, n)
    \/ \E p \in Procs, run \in RunIds \cup {MissingRun}, a \in ActionTypes :
          add_action(p, run, a)
    \/ \E p \in Procs : aggregate(p)

SpecMetrics == InitMetrics /\ [][NextMetrics]_vars

\* ------------------------------------------------------ runs.update_metrics
\* A column of metrics is named by its path in the row: <<"errors">> is errors,
\* <<"bytes", "jpeg">> is bytes_jpeg.
GetField(m, f) == IF Len(f) = 1 THEN m[f[1]] ELSE m[f[1]][f[2]]

SetField(m, f, v) ==
    IF Len(f) = 1 THEN [m EXCEPT ![f[1]] = v] ELSE [m EXCEPT ![f[1]][f[2]] = v]

RECURSIVE UpdateFields(_, _, _)
\* UPDATE metrics SET <field> = <field> + ? (key "+field") or <field> = ?, ...
\* Every right-hand side reads the row m as it was before the statement; a
\* keyword argument is <<field, increment, value>>.
UpdateFields(m, row, kwargs) ==
    IF kwargs = {} THEN row
    ELSE LET k == CHOOSE k \in kwargs : TRUE
         IN  UpdateFields(m,
                          SetField(row, k[1], IF k[2] THEN GetField(m, k[1]) + k[3] ELSE k[3]),
                          kwargs \ {k})

UpdateMetrics(store, run, kwargs) ==
    IF run \in DOMAIN store.metrics
    THEN [store EXCEPT !.metrics[run] = UpdateFields(@, @, kwargs)]
    ELSE store

\* No keyword argument: nothing is executed.  Otherwise the one UPDATE and the
\* commit.
update_metrics(p, run, kwargs) ==
    /\ proc[p].pc = "idle"
    /\ UNCHANGED <<inv, clock, proc>>
    /\ IF kwargs = {}
       THEN /\ UNCHANGED db
            /\ ret' = [ret EXCEPT ![p] = [op |-> "update_metrics", kind |-> "ok",
                                          updated |-> FALSE]]
       ELSE /\ db' = Commit(db, UpdateMetrics(db, run, kwargs))
            /\ \A r \in DOMAIN db'.metrics : db'.metrics[r].errors < MaxRecords
            /\ ret' = [ret EXCEPT ![p] = [op |-> "update_metrics", kind |-> "ok",
                                          updated |-> TRUE, run_id |-> run]]

\* ------------------------------------- the ledger with every metrics update
\* The byte counts the command line accepts (type=int).
AcceptedByteCounts == {-1000, 1000}

\* no keyword argument, and +errors=1 with bytes_total=0
KeywordArguments ==
    {{}, {<<<<"errors">>, TRUE, 1>>, <<<<"bytes_total">>, FALSE, 0>>}}

NextLedger ==
    \/ \E p \in Procs, run \in RunIds \cup {MissingRun}, mode \in CaptureModes,
          n \in AcceptedByteCounts :
          add_capture(p, run, mode, n)
    \/ \E p \in Procs, run \in RunIds \cup {MissingRun}, a \in ActionTypes :
          add_action(p, run, a)
    \/ \E p \in Procs, run \in RunIds \cup {MissingRun}, kwargs \in KeywordArguments :
          update_metrics(p, run, kwargs)

\* Every run of the ledger is still running.
InitLedger ==
    /\ db = Ledger(MaxRuns, [r \in RunIds |-> "running"])
    /\ inv = EmptyTable
    /\ clock = 2 * MaxRuns
    /\ proc = [p \in Procs |-> Idle]
    /\ ret = [p \in Procs |-> NoRet]

SpecLedger == InitLedger /\ [][NextLedger]_vars

\* --------------------------------- independent callers hitting the same row
\* Each caller holds the arguments of the one call it is about to make on the
\* first run: an add_action of some type or an add_capture of some mode and
\* byte count.
Calls ==
    [op : {"add_action"}, arg : ActionTypes, n : {0}]
        \cup [op : {"add_capture"}, arg : CaptureModes, n : ByteCounts]

InitConcurrent ==
    /\ db = Ledger(MaxRuns, [r \in RunIds |-> "running"])
    /\ inv = EmptyTable
    /\ clock = 2 * MaxRuns
    /\ \E calls \in [Procs -> Calls] : proc = [p \in Procs |-> [pc |-> "idle", call |-> calls[p]]]
    /\ ret = [p \in Procs |-> NoRet]

NextConcurrent ==
    \/ \E p \in Procs :
          /\ ret[p] = NoRet
          /\ proc[p].call.op = "add_action"
          /\ add_action(p, AllRunIds[1], proc[p].call.arg)
    \/ \E p \in Procs :
          /\ ret[p] = NoRet
          /\ proc[p].call.op = "add_capture"
          /\ add_capture(p, AllRunIds[1], proc[p].call.arg, proc[p].call.n)

SpecConcurrent == InitConcurrent /\ [][NextConcurrent]_vars

\* ------------------------------------------------ selectors._extract_domain
Http == <<"h", "t", "t", "p", ":", "/", "/">>
Https == <<"h", "t", "t", "p", "s", ":", "/", "/">>
Www == <<"w", "w", "w", ".">>

\* Python's s.startswith(prefix).
StartsWith(s, prefix) ==
    Len(s) >= Len(prefix) /\ SubSeq(s, 1, Len(prefix)) = prefix

RECURSIVE NetlocEnd(_, _)
\* urlparse: the netloc runs from after "//" to the first of "/", "?" and "#".
NetlocEnd(url, i) ==
    IF i > Len(url) \/ url[i] \in {"/", "?", "#"} THEN i
    ELSE NetlocEnd(url, i + 1)

\* urlparse(url).netloc of a url that starts with http:// or https://
Netloc(url) ==
    LET from == (IF StartsWith(url, Https) THEN Len(Https) ELSE Len(Http)) + 1
    IN  SubSeq(url, from, NetlocEnd(url, from) - 1)

extract_domain(url) ==
    IF ~(StartsWith(url, Http) \/ StartsWith(url, Https)) THEN url
    ELSE LET domain == Netloc(url)
         IN  IF StartsWith(domain, Www) THEN SubSeq(domain, Len(Www) + 1, Len(domain))
             ELSE domain

\* ---------------------------------------------------------- selectors.learn
\* A dict is the set of its items; an optional dict is None or <<dict>>.
None == <<>>
EmptyDict == {}

\* json.dumps of a dict, and json.loads of that text.  The attributes column is
\* NoText (SQL NULL) or such a text.
NoText == <<>>
JsonDumps(d) == <<"json", d>>
JsonLoads(text) == text[2]

\* Python truthiness of an optional dict: None and {} are false.
TruthyDict(a) == a # None /\ a[1] # EmptyDict

\* WHERE domain = ? AND action = ?
Matching(table, domain, action) ==
    {i \in DOMAIN table : table[i].domain = domain /\ table[i].action = action}

CoalesceTakesNew(v, w) == v

\* COALESCE(?, attributes)
Coalesce(v, w) == IF v # NoText THEN v ELSE w

UpdateSelectorResetsFails(table, domain, action, selector, t, attrs_json) ==
    [i \in DOMAIN table |->
        IF i \in Matching(table, domain, action)
        THEN [table[i] EXCEPT !.selector = selector, !.success_count = @ + 1,
                              !.fail_count = 0,
                              !.last_used = t, !.attributes = Coalesce(attrs_json, @)]
        ELSE table[i]]

\* UPDATE selectors SET selector = ?, success_count = success_count + 1,
\* last_used = ?, attributes = COALESCE(?, attributes) WHERE domain = ? AND action = ?
UpdateSelector(table, domain, action, selector, t, attrs_json) ==
    [i \in DOMAIN table |->
        IF i \in Matching(table, domain, action)
        THEN [table[i] EXCEPT !.selector = selector, !.success_count = @ + 1,
                              !.last_used = t, !.attributes = Coalesce(attrs_json, @)]
        ELSE table[i]]

\* id INTEGER PRIMARY KEY AUTOINCREMENT: one more than the largest id the table
\* ever held, deleted rows included.
NextId(seq) == seq + 1

\* UNIQUE(domain, action)
InsertSelectorRaises(table, domain, action) == Matching(table, domain, action) # {}

\* INSERT INTO selectors (domain, action, selector, success_count, last_used,
\* attributes) VALUES (?, ?, ?, 1, ?, ?); fail_count and created_at by default.
InsertSelector(table, seq, domain, action, selector, t, attrs_json) ==
    table @@ (NextId(seq) :>
        [domain |-> domain, action |-> action, selector |-> selector,
         success_count |-> 1, fail_count |-> 0, attributes |-> attrs_json,
         last_used |-> t, last_failed |-> <<>>, created_at |-> t])

RowcountAlwaysZero(table, domain, action) == 0

\* cursor.rowcount of the UPDATE: the rows it matched.
Rowcount(table, domain, action) == Cardinality(Matching(table, domain, action))

\* The domain, the time and the attributes are worked out before the
\* connection is opened.
learn_begin(p, action, selector, url, attributes) ==
    /\ proc[p].pc = "idle"
    /\ Tick
    /\ UNCHANGED <<db, inv>>
    /\ Goto(p, [pc |-> "learn_txn", action |-> action, selector |-> selector,
                domain |-> extract_domain(url), t |-> now,
                attrs_json |-> IF TruthyDict(attributes) THEN JsonDumps(attributes[1])
                               ELSE NoText])

\* The write transaction of learn: the UPDATE, the INSERT when it matched no
\* row, and the commit.
learn_txn(p) ==
    /\ proc[p].pc = "learn_txn"
    /\ UNCHANGED <<inv, clock>>
    /\ LET l == proc[p]
           s1 == UpdateSelector(db.selectors, l.domain, l.action, l.selector, l.t, l.attrs_json)
       IN  IF Rowcount(db.selectors, l.domain, l.action) # 0
           THEN /\ db' = Commit(db, [db EXCEPT !.selectors = s1])
                /\ Finish(p, [op |-> "learn", kind |-> "ok", success |-> TRUE,
                              domain |-> l.domain, action |-> l.action,
                              selector |-> l.selector])
           ELSE IF InsertSelectorRaises(s1, l.domain, l.action)
           THEN /\ db' = Rollback(db, [db EXCEPT !.selectors = s1])
                /\ Finish(p, Error("learn", 1))
           ELSE /\ db' = Commit(db, [db EXCEPT !.selectors =
                            InsertSelector(s1, db.seq, l.domain, l.action, l.selector,
                                           l.t, l.attrs_json),
                                                  !.seq = NextId(db.seq)])
                /\ Finish(p, [op |-> "learn", kind |-> "ok", success |-> TRUE,
                              domain |-> l.domain, action |-> l.action,
                              selector |-> l.selector])

\* --------------------------------------------------------- selectors.recall
Max(a, b) == IF a >= b THEN a ELSE b

ReliabilityOverFails(row) ==
    [num |-> row.success_count, den |-> Max(1, row.fail_count)]

\* success_count / max(1, success_count + fail_count), as a fraction
Reliability(row) ==
    [num |-> row.success_count, den |-> Max(1, row.success_count + row.fail_count)]

recall_touching(p, action, url) ==
    /\ proc[p].pc = "idle"
    /\ UNCHANGED <<inv, clock, proc>>
    /\ LET rows == Matching(db.selectors, extract_domain(url), action)
       IN  /\ db' = [db EXCEPT !.selectors =
                        [i \in DOMAIN @ |-> IF i \in rows THEN [@[i] EXCEPT !.last_used = now]
                                            ELSE @[i]]]
           /\ ret' = [ret EXCEPT ![p] = [op |-> "recall", kind |-> "ok", found |-> rows # {}]]

\* The SELECT and fetchone(); None when there is no row.
recall(p, action, url) ==
    /\ proc[p].pc = "idle"
    /\ UNCHANGED <<db, inv, clock, proc>>
    /\ LET rows == Matching(db.selectors, extract_domain(url), action)
       IN  IF rows = {}
           THEN ret' = [ret EXCEPT ![p] = [op |-> "recall", kind |-> "ok", found |-> FALSE]]
           ELSE \E i \in rows :
                  ret' = [ret EXCEPT ![p] =
                            [op |-> "recall", kind |-> "ok", found |-> TRUE,
                             selector |-> db.selectors[i].selector,
                             success_count |-> db.selectors[i].success_count,
                             fail_count |-> db.selectors[i].fail_count,
                             reliability |-> Reliability(db.selectors[i]),
                             attributes |-> IF db.selectors[i].attributes # NoText
                                            THEN JsonLoads(db.selectors[i].attributes)
                                            ELSE EmptyDict]]

\* ----------------------------------------------------------- selectors.fail
RecordFailureTouching(table, domain, action, selector, t) ==
    [i \in DOMAIN table |->
        IF i \in Matching(table, domain, action) /\ table[i].selector = selector
        THEN [table[i] EXCEPT !.fail_count = @ + 1, !.last_failed = <<t>>,
                              !.last_used = t]
        ELSE table[i]]

RecordFailureAnySelector(table, domain, action, selector, t) ==
    [i \in DOMAIN table |->
        IF i \in Matching(table, domain, action)
        THEN [table[i] EXCEPT !.fail_count = @ + 1, !.last_failed = <<t>>]
        ELSE table[i]]

\* UPDATE selectors SET fail_count = fail_count + 1, last_failed = ?
\* WHERE domain = ? AND action = ? AND selector = ?
RecordFailure(table, domain, action, selector, t) ==
    [i \in DOMAIN table |->
        IF i \in Matching(table, domain, action) /\ table[i].selector = selector
        THEN [table[i] EXCEPT !.fail_count = @ + 1, !.last_failed = <<t>>]
        ELSE table[i]]

fail_begin(p, action, selector, url) ==
    /\ proc[p].pc = "idle"
    /\ Tick
    /\ UNCHANGED <<db, inv>>
    /\ Goto(p, [pc |-> "fail_txn", action |-> action, selector |-> selector,
                domain |-> extract_domain(url), t |-> now])

\* The UPDATE of fail and the commit.
fail_txn(p) ==
    /\ proc[p].pc = "fail_txn"
    /\ UNCHANGED <<inv, clock>>
    /\ LET l == proc[p]
       IN  /\ db' = Commit(db, [db EXCEPT !.selectors =
                        RecordFailure(db.selectors, l.domain, l.action, l.selector, l.t)])
           /\ Finish(p, [op |-> "fail", kind |-> "ok", recorded |-> TRUE,
                         domain |-> l.domain, action |-> l.action])

\* ---------------------------------------------------------- selectors.clear
\* An optional domain is None or <<domain>>; `if domain:` is false for None and
\* for the empty string.
TruthyText(domain) == domain # None /\ domain[1] # <<>>

\* DELETE FROM selectors WHERE domain = ?, or DELETE FROM selectors
DeleteSelectors(table, domain) ==
    IF TruthyText(domain)
    THEN [i \in {j \in DOMAIN table : table[j].domain # domain[1]} |-> table[i]]
    ELSE EmptyTable

\* The one statement of clear, the commit, and cursor.rowcount.
clear(p, domain) ==
    /\ proc[p].pc = "idle"
    /\ UNCHANGED <<inv, clock, proc>>
    /\ LET after == DeleteSelectors(db.selectors, domain)
       IN  /\ db' = Commit(db, [db EXCEPT !.selectors = after])
           /\ ret' = [ret EXCEPT ![p] =
                        [op |-> "clear", kind |-> "ok",
                         deleted |-> Cardinality(DOMAIN db.selectors \ DOMAIN after)]]

\* ------------------------------------------------------- the selector cache
\* One site, in the spellings a caller may give it.
Host == <<"a", ".", "i", "o">>
Urls ==
    {Host, Www \o Host, Http \o Host, Https \o Host, Http \o Www \o Host,
     Https \o Www \o Host \o <<"/", "p">>}

SelectorActions == {"search", "cart"}
SelectorTexts == {"#q", ".q"}
AttributeDicts ==
    {None, <<EmptyDict>>, <<{<<"role", "button">>}>>, <<{<<"role", "link">>}>>}

\* The calls of the cache with their arguments drawn from the given sets.
CacheNext(actions, texts, urls, dicts) ==
    \/ \E p \in Procs, action \in actions, selector \in texts, url \in urls,
          attributes \in dicts :
          learn_begin(p, action, selector, url, attributes)
    \/ \E p \in Procs : learn_txn(p)
    \/ \E p \in Procs, action \in actions, url \in urls : recall(p, action, url)
    \/ \E p \in Procs, action \in actions, selector \in texts, url \in urls :
          fail_begin(p, action, selector, url)
    \/ \E p \in Procs : fail_txn(p)

\* Two domains of the cache, named as the cache stores them.
Domains == {Host, Www \o Host}

\* Every action and selector on the two domains, no attributes.
NextSelectors == CacheNext(SelectorActions, SelectorTexts, Domains, {None})

SpecSelectors == Init /\ [][NextSelectors]_vars

\* One action on one domain, with and without attributes.
NextAttributes == CacheNext({"search"}, SelectorTexts, {Host}, AttributeDicts)

SpecAttributes == Init /\ [][NextAttributes]_vars

\* One action and one selector on the site in every spelling.
NextSpellings == CacheNext({"search"}, {"#q"}, Urls, {None})

SpecSpellings == Init /\ [][NextSpellings]_vars

\* The domains a caller may hand to clear: none, the empty one, those of the
\* cache.
ClearDomains == {None, <<<<>>>>} \cup {<<d>> : d \in Domains}

\* One selector per action on the two domains, and clear.
NextClear ==
    \/ CacheNext(SelectorActions, {"#q"}, Domains, {None})
    \/ \E p \in Procs, domain \in ClearDomains : clear(p, domain)

SpecClear == Init /\ [][NextClear]_vars

\* ------------------------------------------------------------ runs.progress
SetProgressAlways(store, run, current_step, total_steps) ==
    IF run \in DOMAIN store.runs
    THEN [store EXCEPT !.runs[run] =
            [@ EXCEPT !.current_step = current_step,
                      !.total_steps = IF total_steps = None THEN 0 ELSE total_steps[1]]]
    ELSE store

\* UPDATE runs SET current_step = ?, total_steps = ? WHERE id = ? when
\* total_steps is truthy, UPDATE runs SET current_step = ? WHERE id = ? when it
\* is None or 0.  An optional count is None or <<count>>.
SetProgress(store, run, current_step, total_steps) ==
    IF run \in DOMAIN store.runs
    THEN IF total_steps # None /\ total_steps[1] # 0
         THEN [store EXCEPT !.runs[run] = [@ EXCEPT !.current_step = current_step,
                                                    !.total_steps = total_steps[1]]]
         ELSE [store EXCEPT !.runs[run] = [@ EXCEPT !.current_step = current_step]]
    ELSE store

\* The one UPDATE of progress and the commit.
progress(p, run, current_step, total_steps) ==
    /\ proc[p].pc = "idle"
    /\ UNCHANGED <<inv, clock, proc>>
    /\ db' = Commit(db, SetProgress(db, run, current_step, total_steps))
    /\ ret' = [ret EXCEPT ![p] = [op |-> "progress", kind |-> "ok", run_id |-> run,
                                  current_step |-> current_step]]

\* ------------------------------------------------- runs that report progress
StepCounts == {1, 2}
TotalCounts == {None, <<0>>, <<5>>}

\* The pool after a refresh that met every device booted.
InitProgress ==
    /\ inv = [u \in Udids |-> [name |-> NameOfDevice(CHOOSE k \in 1..MaxSims : AllUdids[k] = u),
                               state |-> "Booted"]]
    /\ db = [EmptyStore EXCEPT !.sims =
                refresh_loop(EmptyTable, run_simctl(inv), 1, Len(run_simctl(inv)), NULL, 0)]
    /\ clock = 0
    /\ proc = [p \in Procs |-> Idle]
    /\ ret = [p \in Procs |-> NoRet]

NextProgress ==
    \/ \E p \in Procs, run \in RunIds, udid \in {AllUdids[1], NULL} : start(p, run, udid, 0)
    \/ \E p \in Procs, run \in RunIds : complete_select(p, run, "completed")
    \/ \E p \in Procs : complete_update(p)
    \/ \E p \in Procs, run \in RunIds, current_step \in StepCounts, total_steps \in TotalCounts :
          progress(p, run, current_step, total_steps)

SpecProgress == InitProgress /\ [][NextProgress]_vars

\* ------------------------------------------------------ db.init_db, reset_db
\* sqlite3 opens a transaction before INSERT, UPDATE and DELETE only: every
\* CREATE and DROP is committed as it is executed, so each is a step.
CreateOrder == <<"selectors", "sims", "runs", "metrics">>
DropOrder == <<"metrics", "runs", "sims", "selectors">>

\* CREATE TABLE IF NOT EXISTS
CreateTable(store, t) == [store EXCEPT !.tables = @ \cup {t}]

\* DROP TABLE deletes the rows first; with foreign keys on it fails when a row
\* of a table that exists still refers to one of them.
DropTableRaises(store, t) ==
    \/ t = "runs" /\ \E r \in DOMAIN store.metrics : r \in DOMAIN store.runs
    \/ t = "sims" /\ \E r \in DOMAIN store.runs : store.runs[r].simulator_udid \in DOMAIN store.sims

\* DROP TABLE IF EXISTS; dropping selectors drops its sqlite_sequence row.
DropTable(store, t) ==
    [store EXCEPT ![t] = EmptyTable, !.tables = @ \ {t},
                  !.seq = IF t = "selectors" THEN 0 ELSE @]

\* init_db up to its first CREATE TABLE.
init_db(p) ==
    /\ proc[p].pc = "idle"
    /\ UNCHANGED <<inv, clock>>
    /\ db' = CreateTable(db, CreateOrder[1])
    /\ Goto(p, [pc |-> "init_db", k |-> 2, op |-> "init_db"])

\* The next CREATE TABLE of init_db, called by itself or at the end of reset_db.
init_db_step(p) ==
    /\ proc[p].pc = "init_db"
    /\ UNCHANGED <<inv, clock>>
    /\ db' = CreateTable(db, CreateOrder[proc[p].k])
    /\ IF proc[p].k = Len(CreateOrder)
       THEN Finish(p, [op |-> proc[p].op, kind |-> "ok"])
       ELSE Goto(p, [proc[p] EXCEPT !.k = @ + 1])

\* reset_db up to its first DROP TABLE (metrics, to which no row refers).
reset_db(p) ==
    /\ proc[p].pc = "idle"
    /\ UNCHANGED <<inv, clock>>
    /\ db' = DropTable(db, DropOrder[1])
    /\ Goto(p, [pc |-> "reset_db", k |-> 2])

\* The next DROP TABLE of reset_db; after the last one, init_db.
reset_db_step(p) ==
    /\ proc[p].pc = "reset_db"
    /\ UNCHANGED <<inv, clock>>
    /\ IF DropTableRaises(db, DropOrder[proc[p].k])
       THEN db' = Rollback(db, db) /\ Finish(p, Error("reset_db", proc[p].k - 1))
       ELSE /\ db' = DropTable(db, DropOrder[proc[p].k])
            /\ IF proc[p].k = Len(DropOrder)
               THEN Goto(p, [pc |-> "init_db", k |-> 1, op |-> "reset_db"])
               ELSE Goto(p, [proc[p] EXCEPT !.k = @ + 1])

\* ---------------------------------------------------- a store that is reset
\* A record in every table: the pool after a refresh, a run on the first
\* simulator with its metrics, a learned selector.
FilledStore ==
    LET i == [u \in Udids |-> [name |-> NameOfDevice(CHOOSE k \in 1..MaxSims : AllUdids[k] = u),
                               state |-> "Booted"]]
        pool == [EmptyStore EXCEPT !.sims =
                    refresh_loop(EmptyTable, run_simctl(i), 1, Len(run_simctl(i)), NULL, 0)]
        started == Bind(InsertMetrics(InsertRun(pool, AllRunIds[1], "wf", AllUdids[1], 0),
                                      AllRunIds[1]), AllUdids[1], AllRunIds[1])
    IN  [started EXCEPT !.selectors = InsertSelector(EmptyTable, 0, Host, "search", "#q", 0, NoText),
                        !.seq = NextId(0)]

InitReset ==
    /\ inv = [u \in DOMAIN FilledStore.sims |->
                [name |-> FilledStore.sims[u].name, state |-> "Booted"]]
    /\ db = FilledStore
    /\ clock = 0
    /\ proc = [p \in Procs |-> Idle]
    /\ ret = [p \in Procs |-> NoRet]

\* The statement of start at which the store raises "no such table".
NoSuchTableAt(store) ==
    IF "runs" \notin store.tables THEN 1
    ELSE IF "metrics" \notin store.tables THEN 2
    ELSE 0

NextReset ==
    \/ \E p \in Procs : init_db(p)
    \/ \E p \in Procs : init_db_step(p)
    \/ \E p \in Procs : reset_db(p)
    \/ \E p \in Procs : reset_db_step(p)
    \/ \E p \in Procs, run \in RunIds : start(p, run, NULL, NoSuchTableAt(db))

SpecReset == InitReset /\ [][NextReset]_vars

\* ------------------------------------------------------ the read operations
\* Each is one SELECT in a transaction that writes nothing.  A list of rows is
\* held as the set of its rows, a dict as the set of its items; None is
\* found = FALSE.
Return(p, op, result) ==
    /\ proc[p].pc = "idle"
    /\ UNCHANGED <<db, inv, clock, proc>>
    /\ ret' = [ret EXCEPT ![p] = [op |-> op, kind |-> "ok", result |-> result]]

ReturnRow(p, op, table, key) ==
    /\ proc[p].pc = "idle"
    /\ UNCHANGED <<db, inv, clock, proc>>
    /\ ret' = [ret EXCEPT ![p] =
                 IF key \in DOMAIN table
                 THEN [op |-> op, kind |-> "ok", found |-> TRUE, row |-> table[key]]
                 ELSE [op |-> op, kind |-> "ok", found |-> FALSE]]

\* SELECT action, selector, success_count, fail_count, last_used FROM selectors
\* WHERE domain = ?
get_all(p, url) ==
    LET t == db.selectors
        domain == extract_domain(url)
    IN  Return(p, "get_all",
               [domain |-> domain,
                selectors |-> {<<t[i].action,
                                 [selector |-> t[i].selector,
                                  success_count |-> t[i].success_count,
                                  fail_count |-> t[i].fail_count,
                                  last_used |-> t[i].last_used]>> :
                               i \in {j \in DOMAIN t : t[j].domain = domain}}])

\* COUNT(*), COUNT(DISTINCT domain), SUM(success_count), SUM(fail_count), and
\* `or 0` for the SUM over no row.
selectors_stats(p) ==
    LET t == db.selectors
        successes == Sum([i \in DOMAIN t |-> t[i].success_count], DOMAIN t)
        failures == Sum([i \in DOMAIN t |-> t[i].fail_count], DOMAIN t)
    IN  Return(p, "selectors.stats",
               [total_selectors |-> Cardinality(DOMAIN t),
                domains |-> Cardinality({t[i].domain : i \in DOMAIN t}),
                total_successes |-> successes,
                total_failures |-> failures,
                overall_reliability |-> [num |-> successes,
                                         den |-> Max(1, successes + failures)]])

\* SELECT domain, action, ... FROM selectors, nested by domain and action.
export_all(p) ==
    LET t == db.selectors
    IN  Return(p, "export_all",
               {<<d, [domain |-> d,
                      selectors |-> {<<t[i].action,
                                       [selector |-> t[i].selector,
                                        successCount |-> t[i].success_count,
                                        failCount |-> t[i].fail_count,
                                        lastUsed |-> t[i].last_used,
                                        lastFailed |-> t[i].last_failed,
                                        attributes |-> IF t[i].attributes # NoText
                                                       THEN JsonLoads(t[i].attributes)
                                                       ELSE EmptyDict,
                                        discoveredAt |-> t[i].created_at]>> :
                                     i \in {j \in DOMAIN t : t[j].domain = d}}]>> :
                d \in {t[i].domain : i \in DOMAIN t}})

\* SELECT udid, name, pool, state, current_task FROM simulators [WHERE state = ?]
list_sims(p, state) ==
    LET t == db.sims
    IN  Return(p, "list_sims",
               {[udid |-> u, name |-> t[u].name, pool |-> t[u].pool, state |-> t[u].state,
                 current_task |-> t[u].current_task] :
                u \in {v \in DOMAIN t : Truthy(state) => t[v].state = state}})

\* SELECT pool, udid, name, state FROM simulators, grouped by pool.
pools(p) ==
    LET t == db.sims
    IN  Return(p, "pools",
               {<<q, {[udid |-> u, name |-> t[u].name, state |-> t[u].state] :
                      u \in {v \in DOMAIN t : t[v].pool = q}}>> :
                q \in {t[u].pool : u \in DOMAIN t}})

\* COUNT(*), SUM(CASE WHEN state = ... THEN 1 ELSE 0 END), COUNT(DISTINCT pool):
\* a SUM over no row is NULL.
simulators_stats(p) ==
    LET t == db.sims
        count(state) == IF DOMAIN t = {} THEN <<>>
                        ELSE <<Cardinality({u \in DOMAIN t : t[u].state = state})>>
    IN  Return(p, "simulators.stats",
               [total |-> Cardinality(DOMAIN t), available |-> count("available"),
                busy |-> count("busy"), offline |-> count("offline"),
                pools |-> Cardinality({t[u].pool : u \in DOMAIN t})])

\* SELECT * FROM simulators WHERE udid = ?
simulators_get(p, udid) == ReturnRow(p, "simulators.get", db.sims, udid)

\* SELECT r.*, m.* FROM runs r LEFT JOIN metrics m ON r.id = m.run_id WHERE r.id = ?
runs_get(p, run) ==
    ReturnRow(p, "runs.get",
              [r \in DOMAIN db.runs |->
                  [run |-> db.runs[r],
                   metrics |-> IF r \in DOMAIN db.metrics THEN <<db.metrics[r]>> ELSE <<>>]],
              run)

\* SELECT * FROM metrics WHERE run_id = ?
get_metrics(p, run) == ReturnRow(p, "get_metrics", db.metrics, run)

\* SELECT id, workflow, status, start_time, end_time FROM runs [WHERE status = ?]
\* LIMIT 20, which is more than the runs of this model.
list_runs(p, status) ==
    LET t == db.runs
    IN  Return(p, "list_runs",
               {[id |-> r, workflow |-> t[r].workflow, status |-> t[r].status,
                 start_time |-> t[r].start_time, end_time |-> t[r].end_time] :
                r \in {v \in DOMAIN t : Truthy(status) => t[v].status = status}})

\* ------------------------------------------------------- a store that is read
\* The empty store, the filled one, and the filled one with its run completed.
ReadStores ==
    {EmptyStore, FilledStore,
     Unbind(SetStatus(FilledStore, AllRunIds[1], "completed", 1, 0), AllUdids[1])}

InitReads ==
    /\ db \in ReadStores
    /\ inv = EmptyTable
    /\ clock = 1
    /\ proc = [p \in Procs |-> Idle]
    /\ ret = [p \in Procs |-> NoRet]

NextReads ==
    \/ \E p \in Procs, url \in Domains : recall(p, "search", url)
    \/ \E p \in Procs, url \in Domains : get_all(p, url)
    \/ \E p \in Procs : selectors_stats(p)
    \/ \E p \in Procs : export_all(p)
    \/ \E p \in Procs, state \in {NULL, "busy"} : list_sims(p, state)
    \/ \E p \in Procs : pools(p)
    \/ \E p \in Procs : simulators_stats(p)
    \/ \E p \in Procs, udid \in {AllUdids[1], AllUdids[MaxSims + 1]} : simulators_get(p, udid)
    \/ \E p \in Procs, run \in {AllRunIds[1], MissingRun} : runs_get(p, run)
    \/ \E p \in Procs, run \in {AllRunIds[1], MissingRun} : get_metrics(p, run)
    \/ \E p \in Procs, status \in {NULL, "running"} : list_runs(p, status)
    \/ \E p \in Procs : aggregate(p)

SpecReads == InitReads /\ [][NextReads]_vars

\* ------------------------------------------- calls that name no stored key
\* Every device is booted, the one refresh so far met the first of them only:
\* the other udids, and every run id but the first, are no key of the store.
InitUnknown ==
    /\ inv = [u \in Udids |-> [name |-> NameOfDevice(CHOOSE k \in 1..MaxSims : AllUdids[k] = u),
                               state |-> "Booted"]]
    /\ db = [EmptyStore EXCEPT !.sims =
                refresh_loop(EmptyTable, run_simctl([u \in {AllUdids[1]} |-> inv[u]]),
                             1, 1, NULL, 0)]
    /\ clock = 0
    /\ proc = [p \in Procs |-> Idle]
    /\ ret = [p \in Procs |-> NoRet]

NextUnknown ==
    \/ \E p \in Procs, udid \in {AllUdids[1], NULL} : start(p, AllRunIds[1], udid, 0)
    \/ \E p \in Procs, run \in {AllRunIds[1], MissingRun} : complete_select(p, run, "failed")
    \/ \E p \in Procs : complete_update(p)
    \/ \E p \in Procs, run \in {AllRunIds[1], MissingRun} : progress(p, run, 1, <<5>>)
    \/ \E p \in Procs, run \in {AllRunIds[1], MissingRun} : add_capture(p, run, "light", 1000)
    \/ \E p \in Procs, run \in {AllRunIds[1], MissingRun} : add_action(p, run, "click")
    \/ \E p \in Procs, udid \in Udids : release_query(p, udid, inv, TRUE)
    \/ \E p \in Procs : release_update(p)

SpecUnknown == InitUnknown /\ [][NextUnknown]_vars

\* ------------------------------------------------------------------ claims
Sims == db.sims
Runs == db.runs
Metrics == db.metrics

AvailableIn(pool) == {u \in DOMAIN Sims : Sims[u].pool = pool /\ Sims[u].state = "available"}

\* C1: of two callers that run acquire concurrently on a pool with exactly one
\* available simulator, exactly one is returned its udid and the other none.
C1_ExactlyOneWins ==
    (\A p \in Procs : ret[p].op = "acquire")
        => Cardinality({p \in Procs : ret[p].udid # NULL}) = 1

\* C2: the row acquire marks busy is available, with no current_task, at the
\* instant of the write.
C2_AtomicCheckAndSet ==
    [][\A p \in Procs :
          acquire_update(p) =>
              /\ Sims[proc[p].udid].state = "available"
              /\ Sims[proc[p].udid].current_task = NULL]_vars

\* C3: a simulator is busy exactly when its current_task is set.
C3_BusyIffTask ==
    \A u \in DOMAIN Sims : (Sims[u].state = "busy") <=> (Sims[u].current_task # NULL)

\* C4: a status that is completed or failed is never changed again.
C4_TerminalStatusImmutable ==
    [][\A r \in DOMAIN Runs :
          Runs[r].status \in Statuses => db'.runs[r].status = Runs[r].status]_vars

\* C5: runs and metrics are paired one to one in every state, also after a
\* start that failed part-way, and the metrics of a run just started are zero.
C5_RunHasMetrics ==
    /\ [](DOMAIN Runs = DOMAIN Metrics)
    /\ [][\A p \in Procs, run \in RunIds, udid \in Udids \cup {NULL} :
            (start(p, run, udid, 0) /\ ret'[p].kind = "ok")
                => (run \in DOMAIN db'.metrics /\ db'.metrics[run] = ZeroMetrics)]_vars

\* a start that failed after its two inserts, next to a run that was started
C5_Witness ==
    /\ \E p \in Procs : ret[p] = Error("start", 2)
    /\ \E p \in Procs : ret[p].op = "start" /\ ret[p].kind = "ok"
    /\ Cardinality(DOMAIN Runs) = 1

\* C6: refresh leaves state and current_task of a simulator that has a
\* current_task as they are: it stays busy, whatever the inventory reports.
C6_BusySticky ==
    [][\A p \in Procs :
          refresh_upsert(p) =>
              \A u \in DOMAIN Sims :
                  Sims[u].current_task # NULL =>
                      /\ db'.sims[u].state = "busy"
                      /\ db'.sims[u].state = Sims[u].state
                      /\ db'.sims[u].current_task = Sims[u].current_task]_vars

\* a run was started on a simulator, and the refresh that came after it has
\* rewritten the row while the inventory reported the device shut down
C6_Witness ==
    \E u \in DOMAIN Sims, p \in Procs, q \in Procs :
        /\ ret[p].op = "start" /\ ret[p].kind = "ok" /\ ret[p].udid = u
        /\ ret[q].op = "refresh" /\ ret[q].kind = "ok"
        /\ Sims[u].state = "busy" /\ Sims[u].current_task = ret[p].run
        /\ Sims[u].last_activity = clock /\ clock > 1
        /\ u \in DOMAIN inv /\ inv[u].state = "Shutdown"

\* C7: start binds an existing simulator as busy with current_task = run id,
\* whatever its state was; complete of that run sets it available and clears
\* current_task, whatever the inventory says.
C7_StartCompleteRoundTrip ==
    [][\A p \in Procs :
          /\ \A run \in RunIds, udid \in Udids :
                (start(p, run, udid, 0) /\ ret'[p].kind = "ok")
                    => /\ db'.sims[udid].state = "busy"
                       /\ db'.sims[udid].current_task = run
          /\ \A run \in DOMAIN Runs, status \in Statuses :
                complete_select(p, run, status)
                    => proc'[p].sim_udid = Runs[run].simulator_udid
          /\ (complete_update(p) /\ proc[p].sim_udid # NULL)
                => /\ db'.sims[proc[p].sim_udid].state = "available"
                   /\ db'.sims[proc[p].sim_udid].current_task = NULL]_vars

\* a run was started on a simulator and completed, and the simulator is
\* available although the inventory last reported it as not running
C7_Witness ==
    \E r \in DOMAIN Runs, p \in Procs :
        /\ Runs[r].status = "completed"
        /\ ret[p].op = "complete" /\ ret[p].run = r
        /\ Runs[r].simulator_udid # NULL
        /\ Sims[Runs[r].simulator_udid].state = "available"
        /\ Sims[Runs[r].simulator_udid].current_task = NULL
        /\ Runs[r].simulator_udid \in DOMAIN inv
        /\ inv[Runs[r].simulator_udid].state = "Shutdown"

\* C8: release stores available when the inventory it queried reports the
\* device Booted and offline otherwise, clears current_task, returns the state
\* it stored and changes no other simulator and no run.
C8_Release ==
    [][\A p \in Procs :
          /\ \A udid \in Udids :
                release_query(p, udid, inv', TRUE)
                    => proc'[p].new_state =
                          IF udid \in DOMAIN inv' /\ inv'[udid].state = "Booted"
                          THEN "available" ELSE "offline"
          /\ release_update(p)
                => /\ proc[p].udid \in DOMAIN Sims
                      => /\ db'.sims[proc[p].udid].state = proc[p].new_state
                         /\ db'.sims[proc[p].udid].current_task = NULL
                   /\ ret'[p].state = proc[p].new_state
                   /\ DOMAIN db'.sims = DOMAIN Sims
                   /\ \A u \in DOMAIN Sims \ {proc[p].udid} : db'.sims[u] = Sims[u]
                   /\ db'.runs = Runs
                   /\ db'.metrics = Metrics]_vars

\* a simulator whose device is gone from the inventory has been released, and
\* release stored and returned offline
C8_Witness ==
    \E p \in Procs :
        /\ ret[p].op = "release" /\ ret[p].kind = "ok" /\ ret[p].state = "offline"
        /\ ret[p].udid \in DOMAIN Sims
        /\ ret[p].udid \notin DOMAIN inv
        /\ Sims[ret[p].udid].state = "offline"
        /\ Sims[ret[p].udid].last_activity = clock

\* C9: acquire on a pool with no available simulator returns none and leaves
\* every simulator record as it is.
C9_AcquireNoneNoEffect ==
    [][\A p \in Procs, pool \in Pools, task \in RunIds :
          (acquire_select(p, pool, task) /\ AvailableIn(pool) = {})
              => /\ ret'[p] = [op |-> "acquire", kind |-> "ok", udid |-> NULL]
                 /\ proc'[p] = Idle
                 /\ db' = db]_vars

\* after one refresh, the one acquire made since returned none while a
\* simulator (of the other pool) is available
C9_Witness ==
    /\ clock = 2
    /\ \A p \in Procs : proc[p] = Idle
    /\ \E p \in Procs : ret[p] = [op |-> "acquire", kind |-> "ok", udid |-> NULL]
    /\ \E u \in DOMAIN Sims : Sims[u].state = "available" /\ Sims[u].last_activity = 1

\* C10: when the inventory query of refresh or release fails, or refresh fails
\* part-way through the device list, the store is left as it was.
C10_ProviderFailureNoChange ==
    [][\A p \in Procs :
          (\/ refresh_query(p, inv', FALSE, 0)
           \/ refresh_query(p, inv', TRUE, 1)
           \/ (refresh_upsert(p) /\ proc[p].bad # 0)
           \/ \E udid \in Udids : release_query(p, udid, inv', FALSE))
              => (db' = db /\ proc'[p] = Idle /\ ret'[p].kind = "error")]_vars

\* a refresh has failed at its second device, after the upsert of the first,
\* on a store that already held simulators
C10_Witness ==
    /\ \E p \in Procs : ret[p] = Error("refresh", 1)
    /\ DOMAIN Sims # {}

\* C11: a failure of the device inventory during refresh or release is caught
\* inside the operation and handed back as an outcome of its own: no call of
\* refresh or release ends in an exception that leaves the operation.
C11_ProviderFailureCaught ==
    \A p \in Procs : ret[p].op \in {"refresh", "release"} => ret[p].kind # "error"

\* C12: every add_capture(run, mode, n) with n >= 0 on an existing run adds 1
\* to captures_<mode> and n to bytes_<mode> and leaves the other counters of
\* captures and bytes alone, nothing else changes them, and in every state
\* bytes_total = bytes_light + bytes_jpeg + bytes_pdf and tokens_estimated =
\* floor(bytes_total / 4): so the counters are the number of calls and the sum
\* of their byte counts, and the tokens follow the new total.
C12_CaptureAccounting ==
    /\ [](\A r \in DOMAIN Metrics :
            /\ Metrics[r].bytes_total =
                  Metrics[r].bytes["light"] + Metrics[r].bytes["jpeg"] + Metrics[r].bytes["pdf"]
            /\ Metrics[r].tokens_estimated = Metrics[r].bytes_total \div 4)
    /\ [][\/ \A r \in DOMAIN Metrics :
               /\ db'.metrics[r].captures = Metrics[r].captures
               /\ db'.metrics[r].bytes = Metrics[r].bytes
               /\ db'.metrics[r].bytes_total = Metrics[r].bytes_total
               /\ db'.metrics[r].tokens_estimated = Metrics[r].tokens_estimated
          \/ \E run \in DOMAIN Metrics, mode \in CaptureModes, n \in ByteCounts :
               /\ db'.metrics[run].captures =
                     [Metrics[run].captures EXCEPT ![mode] = @ + 1]
               /\ db'.metrics[run].bytes = [Metrics[run].bytes EXCEPT ![mode] = @ + n]
               /\ \A r \in DOMAIN Metrics \ {run} : db'.metrics[r] = Metrics[r]
               /\ \E p \in Procs : add_capture(p, run, mode, n)]_vars

\* 4000 bytes of jpeg and 1000 bytes of light were captured on one run
C12_Witness ==
    \E r \in DOMAIN Metrics :
        /\ Metrics[r].captures = [m \in CaptureModes |-> IF m = "pdf" THEN 0 ELSE 1]
        /\ Metrics[r].bytes["jpeg"] = 4000
        /\ Metrics[r].bytes["light"] = 1000
        /\ Metrics[r].bytes_total = 5000
        /\ Metrics[r].tokens_estimated = 1250
        /\ \E p \in Procs : ret[p].op = "add_capture"

\* C13: the stored cost_usd is the stored tokens_estimated * 3 / 1,000,000, for
\* every bytes_total.
C13_CostFromTokens ==
    \A r \in DOMAIN Metrics :
        Metrics[r].cost_usd * 1000000 = Metrics[r].tokens_estimated * 3 * CostUnitsPerUSD

\* The runs whose status is completed.
Completed == {r \in DOMAIN Runs : Runs[r].status = "completed"}

\* The totals of aggregate other than the cost are the sums over the completed
\* runs.
AggregateCounts(r) ==
    /\ r.total_runs = Cardinality(Completed)
    /\ r.total_bytes = Sum([c \in Completed |-> Metrics[c].bytes_total], Completed)
    /\ r.total_tokens = Sum([c \in Completed |-> Metrics[c].tokens_estimated], Completed)
    /\ r.total_captures =
          Sum([c \in Completed |-> Metrics[c].captures["light"] + Metrics[c].captures["jpeg"]
                                      + Metrics[c].captures["pdf"]], Completed)
    /\ r.total_actions =
          Sum([c \in Completed |-> Metrics[c].actions["click"] + Metrics[c].actions["type"]
                                      + Metrics[c].actions["navigation"]
                                      + Metrics[c].actions["scroll"]], Completed)

\* C14 as stated: every total that aggregate returns, the cost among them, is
\* the sum over exactly the runs that are completed when it is called.
C14_AggregateExactSums ==
    [][\A p \in Procs :
          aggregate(p) =>
              /\ AggregateCounts(ret'[p])
              /\ ret'[p].total_cost_usd =
                    Sum([c \in Completed |-> Metrics[c].cost_usd], Completed)]_vars

\* C14, amended: the run count, bytes, tokens, captures and actions that
\* aggregate returns are the sums over exactly the runs that are completed when
\* it is called, and the cost is that sum rounded to a multiple of 1/10,000
\* dollar (neighbouring multiples only); with no completed run every total is 0.
C14_AggregateCompletedOnly ==
    [][\A p \in Procs :
          aggregate(p) =>
              /\ AggregateCounts(ret'[p])
              /\ LET exact == Sum([c \in Completed |-> Metrics[c].cost_usd], Completed)
                     step == CostUnitsPerUSD \div 10000
                 IN  /\ ret'[p].total_cost_usd % step = 0
                     /\ 2 * ret'[p].total_cost_usd <= 2 * exact + step
                     /\ 2 * ret'[p].total_cost_usd >= 2 * exact - step
              /\ Completed = {} =>
                    /\ ret'[p].total_runs = 0 /\ ret'[p].total_bytes = 0
                    /\ ret'[p].total_tokens = 0 /\ ret'[p].total_cost_usd = 0
                    /\ ret'[p].total_captures = 0 /\ ret'[p].total_actions = 0]_vars

\* aggregate has returned 1000 bytes and one run while the ledger holds a
\* completed run with 1000 bytes and a failed run with 4000 bytes
C14_Witness ==
    \E p \in Procs, c \in DOMAIN Runs, f \in DOMAIN Runs :
        /\ ret[p].op = "aggregate" /\ ret[p].total_runs = 1 /\ ret[p].total_bytes = 1000
        /\ Runs[c].status = "completed" /\ Metrics[c].bytes_total = 1000
        /\ Runs[f].status = "failed" /\ Metrics[f].bytes_total = 4000

Cache == db.selectors

\* C15: recall returns the stored success_count and fail_count and, as
\* reliability, success_count / max(1, success_count + fail_count), which lies
\* in [0, 1]; the first learn on a key leaves success_count 1 and fail_count 0,
\* each further learn adds 1 to success_count, and each fail with the stored
\* selector adds 1 to fail_count and leaves success_count: n learns then m
\* fails are recalled as n, m and n / max(1, n + m).
C15_RecallReliability ==
    [][\A p \in Procs :
          /\ \A action \in SelectorActions, url \in Domains :
                (db' = db /\ ret'[p].op = "recall" /\ ret'[p].found /\ recall(p, action, url))
                    => \E i \in Matching(Cache, extract_domain(url), action) :
                          /\ ret'[p].success_count = Cache[i].success_count
                          /\ ret'[p].fail_count = Cache[i].fail_count
                          /\ ret'[p].reliability.num = Cache[i].success_count
                          /\ ret'[p].reliability.den =
                                IF Cache[i].success_count + Cache[i].fail_count >= 1
                                THEN Cache[i].success_count + Cache[i].fail_count ELSE 1
                          /\ 0 <= ret'[p].reliability.num
                          /\ ret'[p].reliability.num <= ret'[p].reliability.den
          /\ learn_txn(p)
                => \E j \in Matching(db'.selectors, proc[p].domain, proc[p].action) :
                      IF Matching(Cache, proc[p].domain, proc[p].action) = {}
                      THEN db'.selectors[j].success_count = 1 /\ db'.selectors[j].fail_count = 0
                      ELSE /\ db'.selectors[j].success_count = Cache[j].success_count + 1
                           /\ db'.selectors[j].fail_count = Cache[j].fail_count
          /\ fail_txn(p)
                => \A j \in Matching(Cache, proc[p].domain, proc[p].action) :
                      Cache[j].selector = proc[p].selector
                          => /\ db'.selectors[j].fail_count = Cache[j].fail_count + 1
                             /\ db'.selectors[j].success_count = Cache[j].success_count]_vars

\* one learn and two fails of the same selector were made on a key and
\* recall has returned 1, 2 and the reliability 1/3
C15_Witness ==
    \E p \in Procs, i \in DOMAIN Cache :
        /\ ret[p].op = "recall" /\ ret[p].found
        /\ ret[p].success_count = 1 /\ ret[p].fail_count = 2
        /\ 3 * ret[p].reliability.num = ret[p].reliability.den
        /\ Cache[i].success_count = 1 /\ Cache[i].fail_count = 2
        /\ ret[p].selector = Cache[i].selector

\* C16: fail leaves the cache as it is, fail_count and last_failed included,
\* when the stored selector of the key differs from the one passed (or the key
\* has no record), and adds exactly 1 to fail_count when they are equal.
C16_FailOnlyStoredSelector ==
    [][\A p \in Procs :
          fail_txn(p) =>
              LET rows == Matching(Cache, proc[p].domain, proc[p].action)
              IN  IF \E j \in rows : Cache[j].selector = proc[p].selector
                  THEN \A j \in rows :
                          db'.selectors[j] =
                              [Cache[j] EXCEPT !.fail_count = @ + 1,
                                               !.last_failed = <<proc[p].t>>]
                  ELSE db' = db]_vars

\* two learns and one fail were made on a key, the fail met no record or
\* another selector than its own, and fail_count is 0
C16_Witness ==
    \E p \in Procs, i \in DOMAIN Cache :
        /\ clock = 3
        /\ \A q \in Procs : proc[q] = Idle
        /\ ret[p].op = "fail" /\ ret[p].kind = "ok"
        /\ ret[p].domain = Cache[i].domain /\ ret[p].action = Cache[i].action
        /\ Cache[i].success_count = 2
        /\ Cache[i].fail_count = 0
        /\ Cache[i].last_failed = <<>>
        /\ Cache[i].last_used = 3

\* C17: the first learn for a key inserts its record with success_count 1,
\* every later learn adds exactly 1 to success_count and leaves fail_count, and
\* after each learn the stored selector is the one of that call; the records
\* of other keys are left alone.
C17_LearnAccumulates ==
    [][\A p \in Procs :
          learn_txn(p) =>
              LET before == Matching(Cache, proc[p].domain, proc[p].action)
                  after == Matching(db'.selectors, proc[p].domain, proc[p].action)
              IN  /\ Cardinality(after) = 1
                  /\ \A j \in after :
                        /\ db'.selectors[j].selector = proc[p].selector
                        /\ IF before = {}
                           THEN /\ db'.selectors[j].success_count = 1
                                /\ j \notin DOMAIN Cache
                           ELSE /\ j \in before
                                /\ db'.selectors[j].success_count = Cache[j].success_count + 1
                                /\ db'.selectors[j].fail_count = Cache[j].fail_count
                  /\ \A i \in DOMAIN Cache \ before : db'.selectors[i] = Cache[i]
                  /\ ret'[p].kind = "ok" /\ ret'[p].selector = proc[p].selector]_vars

\* a record that was learned, failed once and learned again with the other
\* selector: success_count 2, fail_count still 1
C17_Witness ==
    \E i \in DOMAIN Cache :
        /\ Cache[i].success_count = 2
        /\ Cache[i].fail_count = 1
        /\ Cache[i].last_failed = <<2>>
        /\ Cache[i].last_used = 3
        /\ Cache[i].selector = ".q"

\* The callers whose last call was a learn that returned for this key.
Learned(domain, action) ==
    {p \in Procs : /\ ret[p].op = "learn" /\ ret[p].kind = "ok"
                   /\ ret[p].domain = domain /\ ret[p].action = action}

\* C18: no two records have the same (domain, action); no learn ends in a
\* uniqueness error; and when every call made so far was one learn per caller
\* for one key, run in any interleaving, and all have returned, the key has
\* exactly one record and its success_count is the number of calls.
C18_OneRecordPerKey ==
    /\ \A i \in DOMAIN Cache, j \in DOMAIN Cache :
          (Cache[i].domain = Cache[j].domain /\ Cache[i].action = Cache[j].action) => i = j
    /\ \A p \in Procs : ret[p].op = "learn" => ret[p].kind = "ok"
    /\ \A p \in Procs :
          (/\ ret[p].op = "learn"
           /\ \A q \in Procs : proc[q] = Idle
           /\ clock = Cardinality(Learned(ret[p].domain, ret[p].action)))
              => /\ Cardinality(Matching(Cache, ret[p].domain, ret[p].action)) = 1
                 /\ \A i \in Matching(Cache, ret[p].domain, ret[p].action) :
                       Cache[i].success_count = clock

\* two callers began learn for a key without record, the second to begin
\* committed first (it inserted, at time 2) and the first then updated the
\* record with its earlier time: one record, success_count 2
C18_Witness ==
    \E i \in DOMAIN Cache :
        /\ clock = 2
        /\ \A p \in Procs : p \in Learned(Cache[i].domain, Cache[i].action) /\ proc[p] = Idle
        /\ Cache[i].success_count = 2
        /\ Cache[i].created_at = 2
        /\ Cache[i].last_used = 1

\* C19: a learn without attributes argument stores no attributes of its own,
\* and on an existing record learn leaves the stored attributes as they are
\* when it has none to store; the stored attributes change only to attributes
\* that were supplied.
C19_AttributesKept ==
    [][\A p \in Procs :
          /\ \A selector \in SelectorTexts :
                learn_begin(p, "search", selector, Host, None) => proc'[p].attrs_json = NoText
          /\ \A attributes \in AttributeDicts \ {None} :
                (\E selector \in SelectorTexts :
                    learn_begin(p, "search", selector, Host, attributes))
                    => proc'[p].attrs_json \in {NoText, JsonDumps(attributes[1])}
          /\ learn_txn(p)
                => \A j \in Matching(Cache, proc[p].domain, proc[p].action) :
                      /\ proc[p].attrs_json = NoText
                            => db'.selectors[j].attributes = Cache[j].attributes
                      /\ db'.selectors[j].attributes # Cache[j].attributes
                            => db'.selectors[j].attributes = proc[p].attrs_json]_vars

\* a record that three learns with and without attributes have written holds
\* attributes and the time of the call begun last
C19_Witness ==
    \E i \in DOMAIN Cache :
        /\ Cache[i].success_count = 3
        /\ Cache[i].last_used = 3
        /\ Cache[i].attributes = JsonDumps({<<"role", "link">>})
        /\ \A p \in Procs : proc[p] = Idle

\* C20: every spelling of the site normalises to its host, so every record
\* learned for the site is stored under the host and recall finds it under any
\* spelling.
C20_SpellingsOneDomain ==
    \A i \in DOMAIN Cache : Cache[i].domain = Host

\* C21: a start whose run id already names a run, or whose simulator names no
\* simulator record, raises and leaves the whole store as it was.
C21_StartRejectedNoChange ==
    [][\A p \in Procs, run \in RunIds, udid \in Udids \cup {NULL} :
          (/\ run \in DOMAIN Runs \/ (udid # NULL /\ udid \notin DOMAIN Sims)
           /\ \E failAt \in 0..3 : start(p, run, udid, failAt))
              => (db' = db /\ ret'[p].kind = "error")]_vars

\* a start has raised at its first statement while the run it names exists,
\* bound to a simulator
C21_Witness ==
    \E p \in Procs, q \in Procs :
        /\ ret[p] = Error("start", 0)
        /\ ret[q].op = "start" /\ ret[q].kind = "ok" /\ ret[q].udid # NULL
        /\ DOMAIN Runs = {ret[q].run}
        /\ clock = 3

\* C22: no step lowers a capture counter, a byte total, bytes_total,
\* tokens_estimated, cost_usd or an action counter of a metrics record.
C22_MetricsNeverDecrease ==
    [][\A r \in DOMAIN Metrics :
          /\ r \in DOMAIN db'.metrics
          /\ \A m \in CaptureModes :
                /\ db'.metrics[r].captures[m] >= Metrics[r].captures[m]
                /\ db'.metrics[r].bytes[m] >= Metrics[r].bytes[m]
          /\ \A a \in ActionTypes : db'.metrics[r].actions[a] >= Metrics[r].actions[a]
          /\ db'.metrics[r].bytes_total >= Metrics[r].bytes_total
          /\ db'.metrics[r].tokens_estimated >= Metrics[r].tokens_estimated
          /\ db'.metrics[r].cost_usd >= Metrics[r].cost_usd]_vars

\* The callers that have returned from a call of the given kind and argument.
Returned(op, arg) ==
    {p \in Procs : ret[p] # NoRet /\ proc[p].call.op = op /\ proc[p].call.arg = arg}

ReturnedCaptures == {p \in Procs : ret[p] # NoRet /\ proc[p].call.op = "add_capture"}

\* C23: whatever the order of the callers' add_action and add_capture calls on
\* one run, every action counter has risen by the number of calls of its type
\* that returned, every capture counter by the number of captures of its mode,
\* bytes_total by the sum of their byte counts, and tokens_estimated and
\* cost_usd are those of that bytes_total.
C23_NoLostUpdate ==
    LET m == Metrics[AllRunIds[1]]
        total == Sum([p \in Procs |-> proc[p].call.n], ReturnedCaptures)
    IN  /\ \A a \in ActionTypes : m.actions[a] = Cardinality(Returned("add_action", a))
        /\ \A c \in CaptureModes :
              /\ m.captures[c] = Cardinality(Returned("add_capture", c))
              /\ m.bytes[c] = Sum([p \in Procs |-> proc[p].call.n], Returned("add_capture", c))
        /\ m.bytes_total = total
        /\ m.tokens_estimated = CastQuarter(total)
        /\ m.cost_usd = 3 * total

C23_Witness ==
    /\ \A p \in Procs : ret[p] # NoRet
    /\ \E a \in ActionTypes : Cardinality(Returned("add_action", a)) = NumProcs

\* C24: a refresh that commits leaves, for every device of the inventory it
\* read, a record with the name, device_type, screen size and pool derived from
\* the reported name, whose state is busy if the record it found had a
\* current_task and otherwise available for a booted device and offline for any
\* other; a device that had no record gets no current_task.
C24_RefreshSyncs ==
    [][\A p \in Procs :
          (/\ proc[p].pc = "refresh_txn"
           /\ proc[p].bad = 0
           /\ refresh_upsert(p))
              => \A k \in 1..Len(proc[p].data) :
                    LET dev == proc[p].data[k]
                    IN  /\ dev.udid \in DOMAIN db'.sims
                        /\ db'.sims[dev.udid].name = dev.name
                        /\ db'.sims[dev.udid].device_type = get_device_type(dev.name)
                        /\ db'.sims[dev.udid].screen_size = get_screen_size(dev.name)
                        /\ db'.sims[dev.udid].pool = PoolOf(dev.name)
                        /\ db'.sims[dev.udid].state =
                              IF ReadTask(Sims, dev.udid) # NULL THEN "busy"
                              ELSE IF dev.state = "Booted" THEN "available" ELSE "offline"
                        /\ dev.udid \notin DOMAIN Sims => db'.sims[dev.udid].current_task = NULL]_vars

\* The rule tables of the classification: the patterns of a row, then its bucket.
TabletRules == <<[patterns |-> {Pro13, Air13}, bucket |-> Size1032x1376],
                 [patterns |-> {Pro11, Air11}, bucket |-> Size834x1194]>>
PhoneRules == <<[patterns |-> {ProMax}, bucket |-> Size430x932],
                [patterns |-> {Pro}, bucket |-> Size393x852],
                [patterns |-> {Air}, bucket |-> Size320x693]>>

RECURSIVE FirstMatch(_, _, _)
\* The bucket of the first row one of whose patterns the name contains.
FirstMatch(name, rules, default) ==
    IF rules = <<>> THEN default
    ELSE IF \E pat \in Head(rules).patterns : Contains(name, pat) THEN Head(rules).bucket
    ELSE FirstMatch(name, Tail(rules), default)

\* C25: every record carries the class and the bucket that the ordered rule
\* table gives its name: tablet rules for a name containing "iPad", phone rules
\* for any other; a phone name containing "Pro Max" (and so "Pro") is in the
\* "Pro Max" bucket, and records of equal names have equal pools.
C25_Classification ==
    /\ \A u \in DOMAIN Sims :
          LET n == Sims[u].name
          IN  /\ Sims[u].device_type = (IF Contains(n, iPad) THEN iPad ELSE iPhone)
              /\ Sims[u].screen_size =
                    IF Contains(n, iPad) THEN FirstMatch(n, TabletRules, Size820x1180)
                    ELSE FirstMatch(n, PhoneRules, Size393x852)
              /\ Sims[u].pool = Sims[u].device_type \o <<"-">> \o Sims[u].screen_size
              /\ (~Contains(n, iPad) /\ Contains(n, ProMax) /\ Contains(n, Pro))
                    => Sims[u].screen_size = Size430x932
    /\ \A u \in DOMAIN Sims, v \in DOMAIN Sims :
          Sims[u].name = Sims[v].name => Sims[u].pool = Sims[v].pool

C25_Witness ==
    /\ DOMAIN Sims = {AllUdids[1], AllUdids[2]}
    /\ Sims[AllUdids[1]].name = Sims[AllUdids[2]].name
    /\ Contains(Sims[AllUdids[1]].name, ProMax)
    /\ ~Contains(Sims[AllUdids[1]].name, iPad)

\* Every run's simulator names a simulator record and every metrics record's
\* run names a run.
ReferencesHold ==
    /\ \A r \in DOMAIN Runs :
          Runs[r].simulator_udid # NULL => Runs[r].simulator_udid \in DOMAIN Sims
    /\ DOMAIN Metrics \subseteq DOMAIN Runs

\* C26: in every state each run's non-null simulator_udid names a simulator
\* record and each metrics record's run_id names a run; a start whose simulator
\* names no record raises and changes nothing.
C26_ForeignKeys ==
    /\ []ReferencesHold
    /\ [][\A p \in Procs, run \in RunIds, udid \in Udids :
             (/\ udid \notin DOMAIN Sims
              /\ ret'[p].op = "start"
              /\ \E failAt \in 0..3 : start(p, run, udid, failAt))
                 => (db' = db /\ ret'[p] = Error("start", 0))]_vars

C26_Witness ==
    \E p \in Procs, q \in Procs :
        /\ ret[p] = Error("start", 0)
        /\ ret[q].op = "start" /\ ret[q].kind = "ok" /\ ret[q].udid # NULL
        /\ Runs[ret[q].run].simulator_udid \in DOMAIN Sims
        /\ DOMAIN Sims # Udids
        /\ DOMAIN Metrics = DOMAIN Runs

\* C27: clear with a domain deletes the records of that domain and no other,
\* clear without a domain deletes every record; the count returned is the
\* number of records deleted, and no simulator, run or metrics record changes.
C27_ClearScope ==
    [][\A p \in Procs, domain \in ClearDomains :
          (/\ ret'[p].op = "clear"
           /\ clear(p, domain))
              => /\ DOMAIN db'.selectors =
                       IF domain = None THEN {}
                       ELSE {i \in DOMAIN Cache : Cache[i].domain # domain[1]}
                 /\ \A i \in DOMAIN db'.selectors : db'.selectors[i] = Cache[i]
                 /\ ret'[p].deleted = Cardinality(DOMAIN Cache \ DOMAIN db'.selectors)
                 /\ db'.sims = Sims /\ db'.runs = Runs /\ db'.metrics = Metrics]_vars

\* C28: no step removes a simulator record, and the write transaction of a
\* refresh leaves the record of every device that its inventory did not report
\* as it was.
C28_SimulatorsKept ==
    [][/\ DOMAIN Sims \subseteq DOMAIN db'.sims
       /\ \A p \in Procs :
             (proc[p].pc = "refresh_txn" /\ refresh_upsert(p))
                => \A u \in DOMAIN Sims :
                      (\A k \in 1..Len(proc[p].data) : proc[p].data[k].udid # u)
                         => db'.sims[u] = Sims[u]]_vars

C28_Witness ==
    \E p \in Procs :
        /\ ret[p].op = "refresh" /\ ret[p].kind = "ok" /\ ret[p].simulators = 1
        /\ \A q \in Procs \ {p} : ret[q] = NoRet /\ proc[q] = Idle
        /\ DOMAIN inv = {AllUdids[2]}
        /\ AllUdids[1] \in DOMAIN Sims
        /\ Sims[AllUdids[1]].state = "busy"
        /\ Sims[AllUdids[1]].current_task = AllRunIds[1]

\* C29: progress sets the run's current_step to the step given, sets
\* total_steps to the total given when one is given and is not zero, leaves
\* total_steps as it was otherwise, and changes nothing else of the run
\* (status, end_time, simulator_udid) nor any other record.
C29_ProgressEffect ==
    [][\A p \in Procs, run \in RunIds, current_step \in StepCounts, total_steps \in TotalCounts :
          (/\ ret'[p].op = "progress"
           /\ run \in DOMAIN Runs
           /\ progress(p, run, current_step, total_steps))
              => /\ db'.runs[run].current_step = current_step
                 /\ db'.runs[run].total_steps =
                       IF total_steps # None /\ total_steps[1] # 0 THEN total_steps[1]
                       ELSE Runs[run].total_steps
                 /\ db'.runs[run].status = Runs[run].status
                 /\ db'.runs[run].end_time = Runs[run].end_time
                 /\ db'.runs[run].simulator_udid = Runs[run].simulator_udid
                 /\ \A r \in DOMAIN Runs \ {run} : db'.runs[r] = Runs[r]
                 /\ db'.sims = Sims /\ db'.metrics = Metrics]_vars

C29_Witness ==
    \E p \in Procs, r \in DOMAIN Runs :
        /\ ret[p].op = "progress" /\ ret[p].run_id = r
        /\ Runs[r].status = "completed"
        /\ Runs[r].simulator_udid # NULL
        /\ Runs[r].total_steps = 5
        /\ Runs[r].current_step = 2

\* C30: no statement of an init changes a record of any table, and when a
\* reset returns all four tables exist and are empty.
C30_InitKeepsResetEmpties ==
    [][\A p \in Procs :
          /\ (\/ proc[p].pc = "idle" /\ init_db(p)
              \/ proc[p].pc = "init_db" /\ proc[p].op = "init_db" /\ init_db_step(p))
                => /\ db'.selectors = Cache /\ db'.sims = Sims
                   /\ db'.runs = Runs /\ db'.metrics = Metrics
          /\ (/\ proc[p].pc = "init_db"
              /\ ret'[p] = [op |-> "reset_db", kind |-> "ok"]
              /\ init_db_step(p))
                => /\ db'.tables = TableNames
                   /\ db'.selectors = EmptyTable /\ db'.sims = EmptyTable
                   /\ db'.runs = EmptyTable /\ db'.metrics = EmptyTable]_vars

ReadOperations ==
    {"recall", "get_all", "selectors.stats", "export_all", "pools", "list_sims",
     "simulators.stats", "simulators.get", "runs.get", "get_metrics", "list_runs", "aggregate"}

\* C31: a step in which a read operation returns leaves the whole store as it
\* was, and recall, get and get_metrics return without raising, with an absence
\* for a key that has no record.
C31_ReadsChangeNothing ==
    [][\A p \in Procs :
          (ret'[p] # ret[p] /\ ret'[p].op \in ReadOperations)
             => /\ db' = db
                /\ ret'[p].kind = "ok"
                /\ ret'[p].op = "recall" /\ DOMAIN Cache = {} => ~ret'[p].found
                /\ ret'[p].op = "simulators.get" /\ AllUdids[1] \notin DOMAIN Sims
                      => ~ret'[p].found
                /\ ret'[p].op \in {"runs.get", "get_metrics"} /\ DOMAIN Runs = {}
                      => ~ret'[p].found]_vars

C31_Witness ==
    \E p \in Procs, q \in Procs :
        /\ ret[p].op = "recall" /\ ret[p].found
        /\ ret[q].op = "get_metrics" /\ ~ret[q].found
        /\ DOMAIN Cache # {} /\ DOMAIN Metrics # {}

\* C32: a run has an end_time exactly when its status is completed or failed,
\* and a step that changes a run's end_time gives it a terminal status.
C32_EndTimeIffTerminal ==
    /\ [](\A r \in DOMAIN Runs : (Runs[r].end_time # <<>>) <=> (Runs[r].status \in Statuses))
    /\ [][\A r \in DOMAIN Runs :
             db'.runs[r].end_time # Runs[r].end_time
                => /\ db'.runs[r].status \in Statuses
                   /\ \E p \in Procs : proc[p].pc = "complete_txn" /\ proc[p].run = r
                                       /\ ret'[p].op = "complete"]_vars

C32_Witness ==
    \E r \in DOMAIN Runs, q \in DOMAIN Runs :
        /\ Runs[r].status = "failed" /\ Runs[r].end_time # <<>>
        /\ Runs[q].status = "running" /\ Runs[q].end_time = <<>>

\* The transitions of the per-simulator state machine.
Transitions ==
    {<<"offline", "available">>, <<"available", "busy">>, <<"busy", "available">>,
     <<"busy", "offline">>, <<"available", "offline">>}

\* C33: every step that changes the state of a simulator record takes one of
\* the transitions of the state machine; none takes offline to busy.
C33_StateMachine ==
    [][\A u \in DOMAIN Sims :
          u \in DOMAIN db'.sims /\ db'.sims[u].state # Sims[u].state
             => <<Sims[u].state, db'.sims[u].state>> \in Transitions]_vars

\* C34: no two runs with status running are bound to the same simulator.
C34_OneRunningRunPerSimulator ==
    \A r \in DOMAIN Runs, q \in DOMAIN Runs :
        (/\ r # q
         /\ Runs[r].status = "running" /\ Runs[q].status = "running"
         /\ Runs[r].simulator_udid # NULL)
            => Runs[r].simulator_udid # Runs[q].simulator_udid

\* C35: the simulator of a running run is busy with that run as current_task.
C35_BoundSimulatorHeld ==
    \A r \in DOMAIN Runs :
        (Runs[r].status = "running" /\ Runs[r].simulator_udid # NULL)
            => /\ Sims[Runs[r].simulator_udid].state = "busy"
               /\ Sims[Runs[r].simulator_udid].current_task = r

\* C36: complete changes the state and current_task of a simulator only when
\* that simulator's current_task is the completed run.
C36_CompleteFreesOwnSimulatorOnly ==
    [][\A p \in Procs :
          (proc[p].pc = "complete_txn" /\ ret'[p].op = "complete" /\ complete_update(p))
              => \A u \in DOMAIN Sims :
                    (\/ db'.sims[u].state # Sims[u].state
                     \/ db'.sims[u].current_task # Sims[u].current_task)
                        => Sims[u].current_task = proc[p].run]_vars

\* C37: a successful acquire changes exactly one simulator record, from
\* available to busy with the caller's task, and nothing else in the store.
C37_AcquireFrame ==
    [][\A p \in Procs :
          (proc[p].pc = "acquire_txn" /\ ret'[p].op = "acquire" /\ acquire_update(p))
              => LET u == ret'[p].udid
                 IN  /\ Sims[u].state = "available"
                     /\ db'.sims[u].state = "busy"
                     /\ db'.sims[u].current_task = proc[p].task
                     /\ DOMAIN db'.sims = DOMAIN Sims
                     /\ \A v \in DOMAIN Sims \ {u} : db'.sims[v] = Sims[v]
                     /\ db'.runs = Runs
                     /\ db'.metrics = Metrics
                     /\ db'.selectors = Cache]_vars

\* C38: fail creates no selector record and changes no field of a record other
\* than fail_count and last_failed; with no record on its (domain, action) it
\* leaves the cache as it is.
C38_FailFrame ==
    [][\A p \in Procs :
          (proc[p].pc = "fail_txn" /\ ret'[p].op = "fail" /\ fail_txn(p))
              => /\ DOMAIN db'.selectors = DOMAIN Cache
                 /\ db'.seq = db.seq
                 /\ \A i \in DOMAIN Cache :
                       [db'.selectors[i] EXCEPT !.fail_count = 0, !.last_failed = <<>>]
                           = [Cache[i] EXCEPT !.fail_count = 0, !.last_failed = <<>>]
                 /\ Matching(Cache, proc[p].domain, proc[p].action) = {}
                       => db'.selectors = Cache]_vars

\* one caller's fail was recorded on a learned record, later than the learn,
\* and the other caller's fail met no record of its (domain, action)
C38_Witness ==
    \E p, q \in Procs, i \in DOMAIN Cache :
        /\ ret[q].op = "fail" /\ ret[q].kind = "ok"
        /\ Matching(Cache, ret[q].domain, ret[q].action) = {}
        /\ ret[p].op = "fail" /\ ret[p].kind = "ok"
        /\ ret[p].domain = Cache[i].domain /\ ret[p].action = Cache[i].action
        /\ Cache[i].fail_count = 1
        /\ Cache[i].last_failed # <<>>
        /\ Cache[i].last_failed[1] > Cache[i].last_used
        /\ Cache[i].success_count = 1

\* C39: complete, progress, add_capture and add_action on a run id the store
\* does not hold, and release on a udid it does not hold, leave the whole store
\* as it is; none of the five ever adds a run, metrics or simulator record.
C39_UnknownKeyChangesNothing ==
    [][/\ \A p \in Procs :
             (proc[p].pc = "complete_txn" /\ ret'[p].op = "complete" /\ complete_update(p))
                 => /\ proc[p].run \notin DOMAIN Runs => db' = db
                    /\ DOMAIN db'.runs = DOMAIN Runs
                    /\ DOMAIN db'.metrics = DOMAIN Metrics
                    /\ DOMAIN db'.sims = DOMAIN Sims
       /\ \A p \in Procs :
             (proc[p].pc = "release_txn" /\ ret'[p].op = "release" /\ release_update(p))
                 => /\ proc[p].udid \notin DOMAIN Sims => db' = db
                    /\ DOMAIN db'.sims = DOMAIN Sims
       /\ \A p \in Procs :
             (ret'[p].op \in {"progress", "add_capture", "add_action"} /\ proc[p].pc = "idle"
              /\ \/ progress(p, MissingRun, 1, <<5>>)
                 \/ add_capture(p, MissingRun, "light", 1000)
                 \/ add_action(p, MissingRun, "click"))
                 => db' = db
       /\ (\A p \in Procs : ret'[p] = ret[p] \/ ret'[p].op # "start")
             => /\ DOMAIN db'.runs = DOMAIN Runs
                /\ DOMAIN db'.metrics = DOMAIN Metrics
                /\ DOMAIN db'.sims = DOMAIN Sims]_vars

\* complete and release returned for keys the store does not hold, and the
\* store has the one run that was started and the one simulator it began with
C39_Witness ==
    \E p, q \in Procs :
        /\ ret[p].op = "complete" /\ ret[p].run = MissingRun
        /\ ret[q].op = "release" /\ ret[q].udid \notin DOMAIN Sims
        /\ DOMAIN Runs = {AllRunIds[1]}
        /\ DOMAIN Metrics = {AllRunIds[1]}
        /\ DOMAIN Sims = {AllUdids[1]}

====
